---- MODULE Spec2Model ----
(***************************************************************************)
(* A model of the error-reporting pipeline (src/lib/error-reporter.ts) and *)
(* of the AI request client (src/lib/ai.ts) of the Appily Expo template.   *)
(*                                                                         *)
(* Text is a sequence of one-character strings, so that splitting,         *)
(* matching, truncation and concatenation are computed as the code         *)
(* computes them.  An optional field (stack?: string) is the empty tuple   *)
(* when undefined and a one-element tuple holding the value otherwise.     *)
(***************************************************************************)
EXTENDS Integers, Sequences, FiniteSets, TLC

\* ------------------------------------------------------------- optionals
None == <<>>

Some(x) == <<x>>

IsSome(o) == o # <<>>

\* JavaScript truthiness of an optional string: undefined and "" are falsy.
TruthyStr(o) == o # <<>> /\ o[1] # <<>>

\* JavaScript truthiness of an optional number: undefined and 0 are falsy.
TruthyNum(o) == o # <<>> /\ o[1] # 0

SetMin(S) == CHOOSE x \in S : \A y \in S : x <= y

\* ------------------------------------------------------ character classes
\* \s of a JavaScript regular expression, within a line
IsSpace(c) == c \in {" ", "\t", "\r", "\n"}

\* \S
IsNonSpace(c) == ~IsSpace(c)

\* \d
IsDigit(c) == c \in {"0", "1", "2", "3", "4", "5", "6", "7", "8", "9"}

\* [^:]
IsNotColon(c) == c # ":"

\* [^:\s]
IsNotColonNotSpace(c) == c # ":" /\ ~IsSpace(c)

\* The end (exclusive) of the longest run of characters of a class that
\* starts at position i of s: what a greedy  X+  consumes from i.
InClass(class, c) ==
  CASE class = "\\s" -> IsSpace(c)
    [] class = "\\S" -> IsNonSpace(c)
    [] class = "\\d" -> IsDigit(c)
    [] class = "[^:]" -> IsNotColon(c)
    [] class = "[^:\\s]" -> IsNotColonNotSpace(c)

RunEnd(s, i, class) ==
  LET stop == {j \in i..Len(s) : ~InClass(class, s[j])}
  IN  IF stop = {} THEN Len(s) + 1 ELSE SetMin(stop)

At(s, i) == IF i >= 1 /\ i <= Len(s) THEN s[i] ELSE "<end>"

DigitValue(c) ==
  CASE c = "0" -> 0 [] c = "1" -> 1 [] c = "2" -> 2 [] c = "3" -> 3
    [] c = "4" -> 4 [] c = "5" -> 5 [] c = "6" -> 6 [] c = "7" -> 7
    [] c = "8" -> 8 [] c = "9" -> 9

RECURSIVE ParseInt(_)
\* parseInt(text, 10) of a non-empty run of decimal digits
ParseInt(d) ==
  IF d = <<>> THEN 0
  ELSE 10 * ParseInt(SubSeq(d, 1, Len(d) - 1)) + DigitValue(d[Len(d)])

DigitChar(n) ==
  CASE n = 0 -> "0" [] n = 1 -> "1" [] n = 2 -> "2" [] n = 3 -> "3"
    [] n = 4 -> "4" [] n = 5 -> "5" [] n = 6 -> "6" [] n = 7 -> "7"
    [] n = 8 -> "8" [] n = 9 -> "9"

RECURSIVE NumToStr(_)
\* String(n) of a non-negative integer, as a template literal prints it
NumToStr(n) ==
  IF n < 10 THEN <<DigitChar(n)>>
  ELSE NumToStr(n \div 10) \o <<DigitChar(n % 10)>>

\* ------------------------------------------------------- parseStackTrace
\* The tail every pattern shares,  :(\d+):(\d+) , read from the colon at c;
\* close is TRUE for the pattern that ends in \) .  Each \d+ but the last is
\* followed by a literal, so it can only be the whole run of digits; the
\* last one is greedy and nothing follows it (or a literal does).
LocTail(s, c, close) ==
  LET d1 == RunEnd(s, c + 1, "\\d")
      d2 == RunEnd(s, d1 + 1, "\\d")
  IN  IF /\ At(s, c) = ":"
         /\ d1 > c + 1
         /\ At(s, d1) = ":"
         /\ d2 > d1 + 1
         /\ (close => At(s, d2) = ")")
      THEN Some([line |-> ParseInt(SubSeq(s, c + 1, d1 - 1)),
                 col  |-> ParseInt(SubSeq(s, d1 + 1, d2 - 1))])
      ELSE None

MkMatch(s, from, c, tail) ==
  IF tail = None \/ c <= from THEN None
  ELSE Some([filename     |-> SubSeq(s, from, c - 1),
             lineNumber   |-> tail[1].line,
             columnNumber |-> tail[1].col])

\* /at\s+\S+\s+\(([^:]+):(\d+):(\d+)\)/ tried at start position i.
\* Every quantified class is followed by something outside the class, so
\* each  X+  can only match its whole run: there is nothing to backtrack.
Pattern1At(s, i) ==
  LET w1 == RunEnd(s, i + 2, "\\s")
      n  == RunEnd(s, w1, "\\S")
      w2 == RunEnd(s, n, "\\s")
      c  == RunEnd(s, w2 + 1, "[^:]")
  IN  IF /\ At(s, i) = "a" /\ At(s, i + 1) = "t"
         /\ w1 > i + 2
         /\ n > w1
         /\ w2 > n
         /\ At(s, w2) = "("
      THEN MkMatch(s, w2 + 1, c, LocTail(s, c, TRUE))
      ELSE None

\* /at\s+([^:]+):(\d+):(\d+)/ tried at start position i.  [^:] also matches
\* white space: the greedy \s+ takes the whole run of white space unless a
\* colon follows the run at once, and then it gives back one character, which
\* becomes the captured name.
Pattern2At(s, i) ==
  LET w  == RunEnd(s, i + 2, "\\s")
      g  == IF At(s, w) = ":" THEN w - 1 ELSE w
      c  == RunEnd(s, g, "[^:]")
  IN  IF /\ At(s, i) = "a" /\ At(s, i + 1) = "t"
         /\ w > i + 2
         /\ g > i + 2
      THEN MkMatch(s, g, c, LocTail(s, c, FALSE))
      ELSE None

\* /([^:\s]+):(\d+):(\d+)/ tried at start position i
Pattern3At(s, i) ==
  LET c == RunEnd(s, i, "[^:\\s]")
  IN  IF IsNotColonNotSpace(At(s, i)) /\ i <= Len(s)
      THEN MkMatch(s, i, c, LocTail(s, c, FALSE))
      ELSE None

\* the first entry of a tuple of optional matches that is a match
FirstSome(ms) ==
  LET hit == {k \in DOMAIN ms : ms[k] # None}
  IN  IF hit = {} THEN None ELSE ms[SetMin(hit)]

\* line.match(pattern): the match at the leftmost start position that has one
Match1(s) == FirstSome([i \in 1..Len(s) |-> Pattern1At(s, i)])

Match2(s) == FirstSome([i \in 1..Len(s) |-> Pattern2At(s, i)])

\* A match that starts inside a run of [^:\s] also exists from the start of
\* that run, so the leftmost start is the first character of a run.
Match3(s) ==
  FirstSome([i \in 1..Len(s) |->
               IF i = 1 \/ ~IsNotColonNotSpace(s[i - 1]) THEN Pattern3At(s, i) ELSE None])

\* for (const pattern of patterns): the first pattern that matches the line
MatchLine(line) == FirstSome(<<Match1(line), Match2(line), Match3(line)>>)

\* text.split(ch): the pieces of text between the occurrences of ch
SplitOn(text, ch) ==
  LET seps   == {i \in 1..Len(text) : text[i] = ch}
      starts == {1} \cup {i + 1 : i \in seps}
      ends   == seps \cup {Len(text) + 1}
  IN  [k \in 1..Cardinality(starts) |->
         LET st == CHOOSE x \in starts : Cardinality({y \in starts : y < x}) = k - 1
         IN  SubSeq(text, st, SetMin({x \in ends : x >= st}) - 1)]

\* stack.split('\n')
SplitLines(stack) == SplitOn(stack, "\n")

FirstLineOnly(lines) == MatchLine(lines[1])

\* for (const line of lines): the first line that any pattern matches
FirstLineMatch(lines) == FirstSome([k \in DOMAIN lines |-> MatchLine(lines[k])])

\* parseStackTrace(stack): {} or {filename, lineNumber, columnNumber}
parseStackTrace(stack) ==
  IF ~TruthyStr(stack) THEN None ELSE FirstLineMatch(SplitLines(stack[1]))

\* ----------------------------------------------------------------- state
VARIABLES
  projectId,      \* CONFIG.projectId: the empty text when not configured
  now,            \* what Date.now() returns, in ms since the process started
  lastErrorHash,  \* dedup state: key of the last report that was not dropped
  lastErrorTime,  \* dedup state: time of that report
  calls,          \* one entry per reportError call, in call order
  posts,          \* the POSTs issued to /api/errors/report, in issue order
  aiCalls,        \* one entry per AI client call, in call order
  aiRequests,     \* the HTTP requests issued by the AI client
  globalHandler,  \* the handler ErrorUtils holds
  onunhandledrejection,            \* global.onunhandledrejection
  originalHandler,                 \* what setupGlobalErrorHandlers captured
  originalPromiseRejectionHandler, \* what setupGlobalErrorHandlers captured
  boundary,       \* this.state of the ErrorBoundary of RootLayout
  events          \* one entry per event of the application, in order

vars == <<projectId, now, lastErrorHash, lastErrorTime, calls, posts, aiCalls, aiRequests,
          globalHandler, onunhandledrejection, originalHandler,
          originalPromiseRejectionHandler, boundary, events>>

handlerVars == <<globalHandler, onunhandledrejection, originalHandler,
                 originalPromiseRejectionHandler>>

appVars == <<globalHandler, onunhandledrejection, originalHandler,
             originalPromiseRejectionHandler, boundary, events>>

reporterVars == <<now, lastErrorHash, lastErrorTime, calls, posts>>

aiVars == <<aiCalls, aiRequests>>

\* ------------------------------------------------------------- constants
DEDUPE_WINDOW_MS == 5000

MAX_STACK_LENGTH == 5000

\* '\n... (truncated)'
TruncationMarker == <<"\n", ".", ".", ".", " ", "(", "t", "r", "u", "n", "c", "a", "t", "e", "d", ")">>

\* 'unknown'
UnknownFile == <<"u", "n", "k", "n", "o", "w", "n">>

\* a configured CONFIG.projectId
SomeProject == <<"p", "1">>

\* --------------------------------------------------------------- reporter
hashErrorWithType(error) ==
  error.message \o <<"-">>
    \o (IF TruthyStr(error.filename) THEN error.filename[1] ELSE UnknownFile)
    \o <<"-">>
    \o NumToStr(IF TruthyNum(error.lineNumber) THEN error.lineNumber[1] ELSE 0)
    \o <<"-", error.errorType>>

\* `${error.message}-${error.filename || 'unknown'}-${error.lineNumber || 0}`
hashError(error) ==
  error.message \o <<"-">>
    \o (IF TruthyStr(error.filename) THEN error.filename[1] ELSE UnknownFile)
    \o <<"-">>
    \o NumToStr(IF TruthyNum(error.lineNumber) THEN error.lineNumber[1] ELSE 0)

SkipsReportNever(pid) == FALSE

\* if (!CONFIG.projectId) return;
SkipsReport(pid) == pid = <<>>

AssignLocationSwapped(error, parsed) ==
  [error EXCEPT
     !.filename     = IF parsed = None THEN None ELSE Some(parsed[1].filename),
     !.lineNumber   = IF parsed = None THEN None ELSE Some(parsed[1].columnNumber),
     !.columnNumber = IF parsed = None THEN None ELSE Some(parsed[1].lineNumber)]

\* error.filename = parsed.filename; error.lineNumber = parsed.lineNumber;
\* error.columnNumber = parsed.columnNumber -- undefined when parsed is {}
AssignLocation(error, parsed) ==
  [error EXCEPT
     !.filename     = IF parsed = None THEN None ELSE Some(parsed[1].filename),
     !.lineNumber   = IF parsed = None THEN None ELSE Some(parsed[1].lineNumber),
     !.columnNumber = IF parsed = None THEN None ELSE Some(parsed[1].columnNumber)]

\* if (!error.filename && error.stack) { parsed = parseStackTrace(...); ... }
WithLocation(error) ==
  IF ~TruthyStr(error.filename) /\ TruthyStr(error.stack)
  THEN AssignLocation(error, parseStackTrace(error.stack))
  ELSE error

IsDuplicateInverted(errorHash, t, lastHash, lastTime) ==
  errorHash = lastHash /\ t - lastTime > DEDUPE_WINDOW_MS

IsDuplicateInclusive(errorHash, t, lastHash, lastTime) ==
  errorHash = lastHash /\ t - lastTime <= DEDUPE_WINDOW_MS

IsDuplicateAnyKey(errorHash, t, lastHash, lastTime) ==
  t - lastTime < DEDUPE_WINDOW_MS

\* errorHash === lastErrorHash && now - lastErrorTime < DEDUPE_WINDOW_MS
IsDuplicate(errorHash, t, lastHash, lastTime) ==
  errorHash = lastHash /\ t - lastTime < DEDUPE_WINDOW_MS

TruncateFieldAppendsOnly(text) ==
  IF TruthyStr(text) /\ Len(text[1]) > MAX_STACK_LENGTH
  THEN Some(text[1] \o TruncationMarker)
  ELSE text

TruncateFieldFromMax(text) ==
  IF TruthyStr(text) /\ Len(text[1]) >= MAX_STACK_LENGTH
  THEN Some(SubSeq(text[1], 1, MAX_STACK_LENGTH) \o TruncationMarker)
  ELSE text

\* if (text && text.length > MAX_STACK_LENGTH)
\*   text = text.substring(0, MAX_STACK_LENGTH) + '\n... (truncated)';
TruncateField(text) ==
  IF TruthyStr(text) /\ Len(text[1]) > MAX_STACK_LENGTH
  THEN Some(SubSeq(text[1], 1, MAX_STACK_LENGTH) \o TruncationMarker)
  ELSE text

Truncated(error) ==
  [error EXCEPT !.stack = TruncateField(error.stack),
                !.componentStack = TruncateField(error.componentStack)]

\* the ErrorReportPayload that JSON.stringify serialises
Payload(pid, error) ==
  [projectId  |-> pid,
   error      |-> error,
   deviceInfo |-> [platform |-> "ios", version |-> "26"]]

SettledUncaught(outcome) ==
  IF outcome = "network_error" THEN "rejected" ELSE "resolved"

SettledUnlessFailed(outcome) ==
  IF outcome = "network_error" THEN "pending" ELSE "resolved"

\* try { response = await fetch(...); if (!response.ok) warn else log }
\* catch (e) { warn }  -- whatever the request did, the function returns
Settled(outcome) ==
  IF outcome = "network_error" THEN "resolved" ELSE "resolved"

NetOutcomes == {"ok", "http_error", "network_error"}

\* what a reportError call leaves in the call log
CallEntry(e, t, out, err, key, net, promise) ==
  [arg |-> e, error |-> err, key |-> key, at |-> t,
   outcome |-> out, net |-> net, promise |-> promise]

\* the fetch of reportError
ErrorPost(i, pid, error) ==
  [call |-> i, method |-> "POST", path |-> "/api/errors/report",
   body |-> Payload(pid, error)]

ReportErrorUpdatesAfterAwait(e) ==
  /\ UNCHANGED <<projectId, now, aiCalls, aiRequests>>
  /\ IF SkipsReport(projectId)
     THEN /\ calls' = Append(calls, CallEntry(e, now, "skipped", e, None, "none", "resolved"))
          /\ UNCHANGED <<lastErrorHash, lastErrorTime, posts>>
     ELSE \E located \in {WithLocation(e)} :
          \E errorHash \in {hashError(located)} :
            IF IsDuplicate(errorHash, now, lastErrorHash, lastErrorTime)
            THEN /\ calls' = Append(calls, CallEntry(e, now, "dropped", located,
                                                    Some(errorHash), "none", "resolved"))
                 /\ UNCHANGED <<lastErrorHash, lastErrorTime, posts>>
            ELSE \E sent \in {Truncated(located)} :
                 /\ UNCHANGED <<lastErrorHash, lastErrorTime>>
                 /\ calls' = Append(calls, CallEntry(e, now, "posted", sent,
                                                    Some(errorHash), "pending", "pending"))
                 /\ posts' = Append(posts, ErrorPost(Len(calls) + 1, projectId, sent))

ReportErrorRestartsWindow(e) ==
  /\ UNCHANGED <<projectId, now, aiCalls, aiRequests>>
  /\ IF SkipsReport(projectId)
     THEN /\ calls' = Append(calls, CallEntry(e, now, "skipped", e, None, "none", "resolved"))
          /\ UNCHANGED <<lastErrorHash, lastErrorTime, posts>>
     ELSE \E located \in {WithLocation(e)} :
          \E errorHash \in {hashError(located)} :
            IF IsDuplicate(errorHash, now, lastErrorHash, lastErrorTime)
            THEN /\ calls' = Append(calls, CallEntry(e, now, "dropped", located,
                                                    Some(errorHash), "none", "resolved"))
                 /\ lastErrorTime' = now
                 /\ UNCHANGED <<lastErrorHash, posts>>
            ELSE \E sent \in {Truncated(located)} :
                 /\ lastErrorHash' = errorHash
                 /\ lastErrorTime' = now
                 /\ calls' = Append(calls, CallEntry(e, now, "posted", sent,
                                                    Some(errorHash), "pending", "pending"))
                 /\ posts' = Append(posts, ErrorPost(Len(calls) + 1, projectId, sent))

\* reportError(error), up to its first await.  The record is changed in
\* place, so the caller's object is `error` of the entry afterwards.
ReportError(e) ==
  /\ UNCHANGED <<projectId, now, aiCalls, aiRequests>>
  /\ IF SkipsReport(projectId)
     THEN /\ calls' = Append(calls, CallEntry(e, now, "skipped", e, None, "none", "resolved"))
          /\ UNCHANGED <<lastErrorHash, lastErrorTime, posts>>
     ELSE \E located \in {WithLocation(e)} :
          \E errorHash \in {hashError(located)} :
            IF IsDuplicate(errorHash, now, lastErrorHash, lastErrorTime)
            THEN /\ calls' = Append(calls, CallEntry(e, now, "dropped", located,
                                                    Some(errorHash), "none", "resolved"))
                 /\ UNCHANGED <<lastErrorHash, lastErrorTime, posts>>
            ELSE \E sent \in {Truncated(located)} :
                 /\ lastErrorHash' = errorHash
                 /\ lastErrorTime' = now
                 /\ calls' = Append(calls, CallEntry(e, now, "posted", sent,
                                                    Some(errorHash), "pending", "pending"))
                 /\ posts' = Append(posts, ErrorPost(Len(calls) + 1, projectId, sent))

FetchSettlesForgetsFailed(i, outcome) ==
  /\ calls[i].net = "pending"
  /\ calls' = [calls EXCEPT ![i].net = outcome, ![i].promise = Settled(outcome)]
  /\ lastErrorHash' = IF outcome = "ok" THEN lastErrorHash ELSE <<>>
  /\ UNCHANGED <<projectId, now, lastErrorTime, posts, aiCalls, aiRequests>>

FetchSettlesRetries(i, outcome) ==
  /\ calls[i].net = "pending"
  /\ calls' = [calls EXCEPT ![i].net = outcome, ![i].promise = Settled(outcome)]
  /\ posts' = IF outcome = "ok" THEN posts
              ELSE Append(posts, ErrorPost(i, projectId, calls[i].error))
  /\ UNCHANGED <<projectId, now, lastErrorHash, lastErrorTime, aiCalls, aiRequests>>

\* the request of call i completes: the code after the await runs
FetchSettles(i, outcome) ==
  /\ calls[i].net = "pending"
  /\ calls' = [calls EXCEPT ![i].net = outcome, ![i].promise = Settled(outcome)]
  /\ UNCHANGED <<projectId, now, lastErrorHash, lastErrorTime, posts, aiCalls, aiRequests>>

\* time passes between events
Tick(d) ==
  /\ now' = now + d
  /\ UNCHANGED <<projectId, lastErrorHash, lastErrorTime, calls, posts, aiCalls, aiRequests>>

\* -------------------------------------------------------------- AI client
AIOps == {"generateText", "analyzeImage", "analyzeImageUrl", "checkAIQuota"}

\* new Error('AI not configured - project ID missing')
ConfigErrorMessage == "AI not configured - project ID missing"

\* the message each operation throws when the server gives none
DefaultMessage(op) ==
  CASE op = "generateText"    -> "AI text generation failed"
    [] op = "analyzeImage"    -> "AI image analysis failed"
    [] op = "analyzeImageUrl" -> "AI image analysis failed"
    [] op = "checkAIQuota"    -> "Failed to check AI quota"

AINotConfiguredNever(pid) == FALSE

\* if (!CONFIG.projectId) throw ...
AINotConfigured(pid) == pid = <<>>

cleanBase64Prefix(imageBase64) ==
  IF \E i \in 1..Len(imageBase64) : imageBase64[i] = ","
  THEN SplitOn(imageBase64, ",")[1]
  ELSE imageBase64

\* imageBase64.includes(',') ? imageBase64.split(',')[1] : imageBase64
cleanBase64(imageBase64) ==
  IF \E i \in 1..Len(imageBase64) : imageBase64[i] = ","
  THEN SplitOn(imageBase64, ",")[2]
  ELSE imageBase64

\* the fetch each operation issues
AIRequest(i, op, pid, input) ==
  CASE op = "generateText" ->
         [call |-> i, method |-> "POST", path |-> "/api/ai/generate",
          body |-> [projectId |-> pid, prompt |-> input.prompt,
                    systemPrompt |-> input.systemPrompt,
                    maxTokens |-> 1024, temperature |-> "0.7"]]
    [] op = "analyzeImage" ->
         [call |-> i, method |-> "POST", path |-> "/api/ai/vision",
          body |-> [projectId |-> pid, imageBase64 |-> cleanBase64(input.imageBase64),
                    prompt |-> input.prompt, maxTokens |-> 1024]]
    [] op = "analyzeImageUrl" ->
         [call |-> i, method |-> "POST", path |-> "/api/ai/vision",
          body |-> [projectId |-> pid, imageUrl |-> input.imageUrl,
                    prompt |-> input.prompt]]
    [] op = "checkAIQuota" ->
         [call |-> i, method |-> "GET", path |-> "/api/ai/usage",
          query |-> [projectId |-> pid], body |-> None]

\* the object each operation returns, from the data of the envelope
MapData(op, d) ==
  CASE op = "generateText" ->
         [text |-> d.text, remainingRequests |-> d.remainingRequests]
    [] op \in {"analyzeImage", "analyzeImageUrl"} ->
         [analysis |-> d.analysis, remainingRequests |-> d.remainingRequests]
    [] op = "checkAIQuota" ->
         [remaining |-> d.remainingRequests, max |-> d.maxRequests,
          periodEnd |-> d.periodEnd]

\* data.error?.message || <default>
FailureMessage(op, env) ==
  IF env.error # None /\ env.error[1].message # ""
  THEN env.error[1].message
  ELSE DefaultMessage(op)

UnwrapOnlyWhenBothMissing(op, env) ==
  IF ~env.success /\ env.data = None
  THEN [promise |-> "rejected", value |-> None, reason |-> Some(FailureMessage(op, env))]
  ELSE [promise |-> "resolved",
        value   |-> IF env.data = None THEN None ELSE Some(MapData(op, env.data[1])),
        reason  |-> None]

\* if (!data.success || !data.data) throw new Error(...); return {...};
Unwrap(op, env) ==
  IF ~env.success \/ env.data = None
  THEN [promise |-> "rejected", value |-> None, reason |-> Some(FailureMessage(op, env))]
  ELSE [promise |-> "resolved", value |-> Some(MapData(op, env.data[1])), reason |-> None]

AISettledSwallowsFailures(op, reply) ==
  IF reply.kind = "envelope" /\ reply.envelope.success /\ reply.envelope.data # None
  THEN Unwrap(op, reply.envelope)
  ELSE [promise |-> "resolved", value |-> None, reason |-> None]

\* how a call ends for each thing the request can do: fetch rejects, the body
\* is no JSON (response.json() rejects), or an envelope arrives
AISettled(op, reply) ==
  CASE reply.kind = "network_error" ->
         [promise |-> "rejected", value |-> None, reason |-> Some("Network request failed")]
    [] reply.kind = "unreadable" ->
         [promise |-> "rejected", value |-> None, reason |-> Some("JSON Parse error")]
    [] reply.kind = "envelope" -> Unwrap(op, reply.envelope)

\* one of the four operations is called: the part before its first await
AICall(op, input) ==
  /\ UNCHANGED <<projectId, now, lastErrorHash, lastErrorTime, calls, posts>>
  /\ IF AINotConfigured(projectId)
     THEN /\ aiCalls' = Append(aiCalls,
                 [op |-> op, input |-> input, request |-> 0, reply |-> None,
                  promise |-> "rejected", value |-> None,
                  reason |-> Some(ConfigErrorMessage)])
          /\ UNCHANGED aiRequests
     ELSE /\ aiCalls' = Append(aiCalls,
                 [op |-> op, input |-> input, request |-> Len(aiRequests) + 1,
                  reply |-> None, promise |-> "pending", value |-> None,
                  reason |-> None])
          /\ aiRequests' = Append(aiRequests,
                 AIRequest(Len(aiCalls) + 1, op, projectId, input))

\* the request of AI call i ends: the code after the awaits runs
AIResponds(i, reply) ==
  /\ aiCalls[i].promise = "pending"
  /\ \E end \in {AISettled(aiCalls[i].op, reply)} :
       aiCalls' = [aiCalls EXCEPT ![i].reply = Some(reply),
                                  ![i].promise = end.promise,
                                  ![i].value = end.value,
                                  ![i].reason = end.reason]
  /\ UNCHANGED <<projectId, now, lastErrorHash, lastErrorTime, calls, posts, aiRequests>>

\* ----------------------------------------------------------------- inputs
\* new RuntimeError records, as the three capture sources build them
MkError(message, stack, componentStack, filename, lineNumber, columnNumber, errorType) ==
  [message |-> message, stack |-> stack, componentStack |-> componentStack,
   filename |-> filename, lineNumber |-> lineNumber, columnNumber |-> columnNumber,
   errorType |-> errorType, timestamp |-> "2026-01-01T00:00:00.000Z"]

\* "at <name> (<file>:<line>:<col>)"
FnCallLine(name, file, line, col) ==
  <<"a", "t", " ">> \o name \o <<" ", "(">> \o file \o <<":">> \o line \o <<":">> \o col \o <<")">>

\* names without white space, files without colon or line break, digit runs
Names == {<<"F", "o", "o">>, <<"a", ":", "b">>}

Files == {<<"b", "a", "r", ".", "t", "s", "x">>, <<"m", "y", " ", "f", "(", "x", ")">>}

LineDigits == {<<"1", "2">>, <<"0", "0", "7">>}

ColDigits == {<<"3">>}

\* "at Foo (bar.tsx:12:3)"
ExampleStack == FnCallLine(<<"F", "o", "o">>, <<"b", "a", "r", ".", "t", "s", "x">>, <<"1", "2">>, <<"3">>)

Pad(n) == [i \in 1..n |-> "x"]

\* a stack of n characters whose first line is the example
LongStack(n) == ExampleStack \o <<"\n">> \o Pad(n - Len(ExampleStack) - 1)

FnCallStacks == {FnCallLine(n, f, l, c) : n \in Names, f \in Files, l \in LineDigits, c \in ColDigits}

OtherStacks ==
  { <<>>,
    \* "at bar.tsx:12:3"
    <<"a", "t", " ", "b", "a", "r", ".", "t", "s", "x", ":", "1", "2", ":", "3">>,
    \* "bar.tsx:12:3"
    <<"b", "a", "r", ".", "t", "s", "x", ":", "1", "2", ":", "3">>,
    \* "at new Foo (bar.tsx:12:3)"
    <<"a", "t", " ", "n", "e", "w", " ", "F", "o", "o", " ", "(", "b", "a", "r", ".", "t", "s", "x", ":", "1", "2", ":", "3", ")">>,
    \* "Error boom\nat Foo (bar.tsx:12:3)"
    <<"E", "r", "r", "o", "r", " ", "b", "o", "o", "m", "\n", "a", "t", " ", "F", "o", "o", " ", "(", "b", "a", "r", ".", "t", "s", "x", ":", "1", "2", ":", "3", ")">>,
    \* "TypeError: x\n  at bar.tsx:4:5"
    <<"T", "y", "p", "e", "E", "r", "r", "o", "r", ":", " ", "x", "\n", " ", " ", "a", "t", " ", "b", "a", "r", ".", "t", "s", "x", ":", "4", ":", "5">>,
    \* "no location"
    <<"n", "o", " ", "l", "o", "c", "a", "t", "i", "o", "n">> }

LongStacks == {LongStack(MAX_STACK_LENGTH - 1), LongStack(MAX_STACK_LENGTH),
               LongStack(MAX_STACK_LENGTH + 1)}

ComponentStacks ==
  { None,
    \* "\n in App"
    Some(<<"\n", " ", "i", "n", " ", "A", "p", "p">>),
    Some(Pad(MAX_STACK_LENGTH)),
    Some(Pad(MAX_STACK_LENGTH + 1)) }

\* "boom"
MsgBoom == <<"b", "o", "o", "m">>

\* "other"
MsgOther == <<"o", "t", "h", "e", "r">>

\* "given.ts"
GivenFile == <<"g", "i", "v", "e", "n", ".", "t", "s">>

\* the records of the enrichment and truncation checks
RecordErrors ==
  { MkError(MsgBoom, st, cs, fn, loc[1], loc[2], "js_error") :
      st \in {None} \cup {Some(t) : t \in FnCallStacks \cup OtherStacks \cup LongStacks},
      cs \in ComponentStacks,
      fn \in {None, Some(GivenFile)},
      loc \in {<<None, None>>, <<Some(7), Some(9)>>} }

\* "a.ts"
FileA == <<"a", ".", "t", "s">>

\* the records of the dedup checks: the first three share one key
DedupErrors ==
  { MkError(MsgBoom, None, None, Some(FileA), Some(1), Some(2), "js_error"),
    MkError(MsgBoom, None, Some(<<"\n", " ", "i", "n", " ", "A", "p", "p">>), Some(FileA), Some(1), None, "react_error"),
    \* stack "at f (a.ts:1:2)"
    MkError(MsgBoom, Some(<<"a", "t", " ", "f", " ", "(", "a", ".", "t", "s", ":", "1", ":", "2", ")">>), None, None, None, None, "unhandled_promise"),
    MkError(MsgOther, None, None, None, None, None, "js_error") }

\* -------------------------------------------------------- capture sources
\* the handler the platform installs, and the one the application installs
PlatformHandler == "platform"

AppilyHandler == "appily"

isErrorReportingEnabledAlways(pid) == TRUE

\* Boolean(CONFIG.projectId)
isErrorReportingEnabled(pid) == pid # <<>>

\* String(error) of an Error object
ErrorToString(error) ==
  IF error.message = <<>> THEN error.name ELSE error.name \o <<":", " ">> \o error.message

\* error.message || String(error)
MessageOrString(error) ==
  IF error.message # <<>> THEN error.message ELSE ErrorToString(error)

\* the record the global JS exception handler reports
JsErrorRecord(error) ==
  MkError(MessageOrString(error), error.stack, None, None, None, None, "js_error")

\* String(reason) of a rejection reason that is no Error
ReasonToString(reason) ==
  IF reason.kind = "undefined"
  THEN <<"u", "n", "d", "e", "f", "i", "n", "e", "d">>
  ELSE reason.text

\* error instanceof Error ? error.message : String(error)
RejectionMessage(reason) ==
  IF reason.kind = "Error" THEN reason.error[1].message ELSE ReasonToString(reason)

\* error instanceof Error ? error.stack : undefined
RejectionStack(reason) ==
  IF reason.kind = "Error" THEN reason.error[1].stack ELSE None

RejectionRecordAsJsError(reason) ==
  MkError(RejectionMessage(reason), RejectionStack(reason), None, None, None, None, "js_error")

\* the record the unhandled promise rejection handler reports
RejectionRecord(reason) ==
  MkError(RejectionMessage(reason), RejectionStack(reason), None, None, None, None,
          "unhandled_promise")

\* the record componentDidCatch reports
RenderErrorRecord(error, errorInfo) ==
  MkError(error.message, error.stack, errorInfo.componentStack, None, None, None,
          "react_error")

\* a call of a handler of the platform
HandlerCall(handler, args) == [handler |-> handler, args |-> args]

InvokeOriginalNever(original, args) == <<>>

\* if (originalHandler) { originalHandler(error, isFatal); }
\* if (originalPromiseRejectionHandler) { originalPromiseRejectionHandler(event); }
InvokeOriginal(original, args) ==
  IF original # None THEN <<HandlerCall(original[1], args)>> ELSE <<>>

\* what an event leaves in the event log: the reportError call it made
\* (0 when none) and the calls it made of handlers of the platform
AppEvent(source, args, report, chained) ==
  [source |-> source, args |-> args, report |-> report, chained |-> chained]

\* useEffect(() => { setupGlobalErrorHandlers(); }, []) has run
Mounted == \E k \in DOMAIN events : events[k].source = "mount"

\* setupGlobalErrorHandlers().  ErrorUtils is a property of global, so global
\* is defined wherever this runs.
setupGlobalErrorHandlers ==
  /\ IF ~isErrorReportingEnabled(projectId)
     THEN UNCHANGED handlerVars
     ELSE /\ originalHandler' = globalHandler
          /\ globalHandler' = Some(AppilyHandler)
          /\ originalPromiseRejectionHandler' = onunhandledrejection
          /\ onunhandledrejection' = Some(AppilyHandler)
  /\ events' = Append(events, AppEvent("mount", <<>>, 0, <<>>))
  /\ UNCHANGED <<projectId, now, lastErrorHash, lastErrorTime, calls, posts,
                 aiCalls, aiRequests, boundary>>

\* an uncaught JS exception: ErrorUtils calls the handler it holds
GlobalHandlerInvoked(error, isFatal) ==
  IF globalHandler = Some(AppilyHandler)
  THEN /\ ReportError(JsErrorRecord(error))
       /\ events' = Append(events,
            AppEvent("js_exception", <<error, isFatal>>, Len(calls) + 1,
                     InvokeOriginal(originalHandler, <<error, isFatal>>)))
       /\ UNCHANGED <<handlerVars, boundary>>
  ELSE /\ events' = Append(events,
            AppEvent("js_exception", <<error, isFatal>>, 0,
                     IF globalHandler = None THEN <<>>
                     ELSE <<HandlerCall(globalHandler[1], <<error, isFatal>>)>>))
       /\ UNCHANGED <<projectId, now, lastErrorHash, lastErrorTime, calls, posts,
                      aiCalls, aiRequests, handlerVars, boundary>>

\* an unhandled promise rejection: the engine calls global.onunhandledrejection
RejectionHandlerInvoked(event) ==
  IF onunhandledrejection = Some(AppilyHandler)
  THEN /\ ReportError(RejectionRecord(event.reason))
       /\ events' = Append(events,
            AppEvent("unhandled_rejection", <<event>>, Len(calls) + 1,
                     InvokeOriginal(originalPromiseRejectionHandler, <<event>>)))
       /\ UNCHANGED <<handlerVars, boundary>>
  ELSE /\ events' = Append(events,
            AppEvent("unhandled_rejection", <<event>>, 0,
                     IF onunhandledrejection = None THEN <<>>
                     ELSE <<HandlerCall(onunhandledrejection[1], <<event>>)>>))
       /\ UNCHANGED <<projectId, now, lastErrorHash, lastErrorTime, calls, posts,
                      aiCalls, aiRequests, handlerVars, boundary>>

\* this.state of the constructor
InitialBoundaryState == [hasError |-> FALSE, error |-> None, errorInfo |-> None]

\* return { hasError: true, error };
getDerivedStateFromError(state, error) ==
  [state EXCEPT !.hasError = TRUE, !.error = Some(error)]

\* this.setState({ errorInfo }) of componentDidCatch
componentDidCatch(state, errorInfo) == [state EXCEPT !.errorInfo = Some(errorInfo)]

handleRetryKeepsError(state) == [state EXCEPT !.hasError = FALSE]

\* this.setState({ hasError: false, error: null, errorInfo: null })
handleRetry(state) ==
  [state EXCEPT !.hasError = FALSE, !.error = None, !.errorInfo = None]

\* what render() returns
render(state) == IF state.hasError THEN "fallback" ELSE "children"

\* a child throws while it renders: React calls getDerivedStateFromError and
\* then componentDidCatch
BoundaryCatches(error, errorInfo) ==
  /\ render(boundary) = "children"
  /\ boundary' = componentDidCatch(getDerivedStateFromError(boundary, error), errorInfo)
  /\ ReportError(RenderErrorRecord(error, errorInfo))
  /\ events' = Append(events,
       AppEvent("render_fault", <<error, errorInfo>>, Len(calls) + 1, <<>>))
  /\ UNCHANGED handlerVars

\* the user presses "Try Again", which only the fallback shows
TryAgainPressed ==
  /\ render(boundary) = "fallback"
  /\ boundary' = handleRetry(boundary)
  /\ events' = Append(events, AppEvent("retry", <<>>, 0, <<>>))
  /\ UNCHANGED <<projectId, now, lastErrorHash, lastErrorTime, calls, posts,
                 aiCalls, aiRequests, handlerVars>>

\* "Error"
ErrorName == <<"E", "r", "r", "o", "r">>

\* the Error objects thrown: new Error('boom') with a stack "at f (a.ts:1:2)",
\* and new Error('') without one
ErrorObjects ==
  { [name |-> ErrorName, message |-> MsgBoom,
     stack |-> Some(<<"a", "t", " ", "f", " ", "(", "a", ".", "t", "s", ":", "1", ":", "2", ")">>)],
    [name |-> ErrorName, message |-> <<>>, stack |-> None] }

\* isFatal: undefined or true
IsFatalArgs == {None, Some(TRUE)}

\* the { reason } events: an Error, the string 'boom', undefined
RejectionEvents ==
  {[reason |-> [kind |-> "Error", error |-> Some(e), text |-> <<>>]] : e \in ErrorObjects}
    \cup {[reason |-> [kind |-> "string", error |-> None, text |-> MsgBoom]],
          [reason |-> [kind |-> "undefined", error |-> None, text |-> <<>>]]}

\* errorInfo with componentStack null, and "\n in App"
ErrorInfos ==
  {[componentStack |-> None],
   [componentStack |-> Some(<<"\n", " ", "i", "n", " ", "A", "p", "p">>)]}

\* ----------------------------------------------------------------- bounds
MaxCalls == 3

MaxTime == 10000

TimeSteps == {DEDUPE_WINDOW_MS - 1, DEDUPE_WINDOW_MS}

\* --------------------------------------------------------- specifications
Init ==
  /\ projectId \in {<<>>, SomeProject}
  /\ now = 0
  /\ lastErrorHash = <<>>
  /\ lastErrorTime = 0
  /\ calls = <<>>
  /\ posts = <<>>
  /\ aiCalls = <<>>
  /\ aiRequests = <<>>
  /\ globalHandler = Some(PlatformHandler)
  /\ onunhandledrejection = None
  /\ originalHandler = None
  /\ originalPromiseRejectionHandler = None
  /\ boundary = InitialBoundaryState
  /\ events = <<>>

DoReport ==
  \E e \in DedupErrors : Len(calls) < MaxCalls /\ ReportError(e) /\ UNCHANGED appVars

DoSettle ==
  \E i \in 1..Len(calls) : \E outcome \in NetOutcomes :
    FetchSettles(i, outcome) /\ UNCHANGED appVars

DoTick == \E d \in TimeSteps : now + d <= MaxTime /\ Tick(d) /\ UNCHANGED appVars

Next == DoReport \/ DoSettle \/ DoTick

Spec == Init /\ [][Next]_vars

\* one reportError call on each record of RecordErrors
DoReportRecord ==
  \E e \in RecordErrors : calls = <<>> /\ ReportError(e) /\ UNCHANGED appVars

NextRecord == DoReportRecord \/ DoSettle

SpecRecord == Init /\ [][NextRecord]_vars

\* "AAAA"
RawImage == <<"A", "A", "A", "A">>

\* "data:image/png;base64,AAAA"
PngDataUrl == <<"d", "a", "t", "a", ":", "i", "m", "a", "g", "e", "/", "p", "n", "g", ";", "b", "a", "s", "e", "6", "4", ",", "A", "A", "A", "A">>

\* "a,b,c": not a data URL
TwoCommas == <<"a", ",", "b", ",", "c">>

AIInput(prompt, systemPrompt, imageBase64, imageUrl) ==
  [prompt |-> prompt, systemPrompt |-> systemPrompt,
   imageBase64 |-> imageBase64, imageUrl |-> imageUrl]

\* the arguments each operation is called with
AIInputs(op) ==
  CASE op = "generateText" ->
         {AIInput(Some("Write a haiku"), sp, None, None) : sp \in {None, Some("You are a poet")}}
    [] op = "analyzeImage" ->
         {AIInput(Some("What is this?"), None, img, None) :
            img \in {RawImage, PngDataUrl, TwoCommas}}
    [] op = "analyzeImageUrl" ->
         {AIInput(Some("What is this?"), None, None, Some("https://example.com/dog.jpg"))}
    [] op = "checkAIQuota" ->
         {AIInput(None, None, None, None)}

\* the data a server sends for each operation
AIData(op) ==
  CASE op = "generateText" -> [text |-> "An old silent pond", remainingRequests |-> 41]
    [] op \in {"analyzeImage", "analyzeImageUrl"} ->
         [analysis |-> "A golden retriever", remainingRequests |-> 40]
    [] op = "checkAIQuota" ->
         [remainingRequests |-> 39, maxRequests |-> 50, periodEnd |-> "2026-02-01T00:00:00.000Z"]

\* the {success, data?, error?} envelopes a server can answer with
Envelopes(op) ==
  [success : BOOLEAN,
   data    : {None, Some(AIData(op))},
   error   : {None, Some([code |-> "E", message |-> ""]),
              Some([code |-> "QUOTA_EXCEEDED", message |-> "Quota exceeded"])}]

Replies(op) ==
  {[kind |-> "network_error", envelope |-> None], [kind |-> "unreadable", envelope |-> None]}
    \cup {[kind |-> "envelope", envelope |-> env] : env \in Envelopes(op)}

MaxAICalls == 2

DoAICall ==
  \E op \in AIOps : \E input \in AIInputs(op) :
    Len(aiCalls) < MaxAICalls /\ AICall(op, input) /\ UNCHANGED appVars

DoAIRespond ==
  \E i \in 1..Len(aiCalls) : \E reply \in Replies(aiCalls[i].op) :
    AIResponds(i, reply) /\ UNCHANGED appVars

NextAI == DoAICall \/ DoAIRespond

SpecAI == Init /\ [][NextAI]_vars

\* the reporter and the AI client side by side
MaxLayerCalls == 2

DoLayerReport ==
  \E e \in DedupErrors :
    Len(calls) + Len(aiCalls) < MaxLayerCalls /\ ReportError(e) /\ UNCHANGED appVars

DoLayerAICall ==
  \E op \in AIOps : \E input \in AIInputs(op) :
    Len(calls) + Len(aiCalls) < MaxLayerCalls /\ AICall(op, input) /\ UNCHANGED appVars

NextLayer == DoLayerReport \/ DoLayerAICall \/ DoSettle \/ DoAIRespond

SpecLayer == Init /\ [][NextLayer]_vars

\* --------------------------------------------------------- generateImage
\* "data:"
DataScheme == <<"d", "a", "t", "a", ":">>

\* ";base64,"
Base64Marker == <<";", "b", "a", "s", "e", "6", "4", ",">>

DataUrlWithoutPrefix(mimeType, data) == data

\* `data:${mimeType};base64,${data}`
DataUrl(mimeType, data) == DataScheme \o mimeType \o Base64Marker \o data

DefaultAspectRatio == "1:1"

DefaultResolution == "1K"

\* the aspect ratio and the resolution sent: the option when given, else the
\* default
ImageOption(options, field, default) ==
  IF options = None THEN default
  ELSE IF options[1][field] = None THEN default ELSE options[1][field][1]

\* the fetch of generateImage
ImageRequest(i, pid, input) ==
  [call |-> i, method |-> "POST", path |-> "/api/ai/generate-image",
   body |-> [projectId   |-> pid, prompt |-> input.prompt,
             aspectRatio |-> ImageOption(input.options, "aspectRatio", DefaultAspectRatio),
             resolution  |-> ImageOption(input.options, "resolution", DefaultResolution)]]

\* the object generateImage returns, from the data of the envelope
ImageResult(d) ==
  [imageBase64 |-> DataUrl(d.mimeType, d.imageBase64),
   remainingRequests |-> d.remainingRequests]

ImageDefaultMessage == "AI image generation failed"

\* how a generateImage call ends for each thing the request can do
ImageSettled(reply) ==
  CASE reply.kind = "network_error" ->
         [promise |-> "rejected", value |-> None, reason |-> Some("Network request failed")]
    [] reply.kind = "unreadable" ->
         [promise |-> "rejected", value |-> None, reason |-> Some("JSON Parse error")]
    [] reply.kind = "envelope" ->
         IF ~reply.envelope.success \/ reply.envelope.data = None
         THEN [promise |-> "rejected", value |-> None,
               reason  |-> Some(IF reply.envelope.error # None
                                   /\ reply.envelope.error[1].message # ""
                                THEN reply.envelope.error[1].message
                                ELSE ImageDefaultMessage)]
         ELSE [promise |-> "resolved", value |-> Some(ImageResult(reply.envelope.data[1])),
               reason  |-> None]

\* generateImage(prompt, options): the part before its first await
generateImage(input) ==
  /\ UNCHANGED <<projectId, now, lastErrorHash, lastErrorTime, calls, posts>>
  /\ IF AINotConfigured(projectId)
     THEN /\ aiCalls' = Append(aiCalls,
                 [op |-> "generateImage", input |-> input, request |-> 0, reply |-> None,
                  promise |-> "rejected", value |-> None,
                  reason |-> Some(ConfigErrorMessage)])
          /\ UNCHANGED aiRequests
     ELSE /\ aiCalls' = Append(aiCalls,
                 [op |-> "generateImage", input |-> input,
                  request |-> Len(aiRequests) + 1, reply |-> None,
                  promise |-> "pending", value |-> None, reason |-> None])
          /\ aiRequests' = Append(aiRequests, ImageRequest(Len(aiCalls) + 1, projectId, input))

\* the request of generateImage call i ends
ImageResponds(i, reply) ==
  /\ aiCalls[i].promise = "pending"
  /\ \E end \in {ImageSettled(reply)} :
       aiCalls' = [aiCalls EXCEPT ![i].reply = Some(reply),
                                  ![i].promise = end.promise,
                                  ![i].value = end.value,
                                  ![i].reason = end.reason]
  /\ UNCHANGED <<projectId, now, lastErrorHash, lastErrorTime, calls, posts, aiRequests>>

\* generateImage(prompt) and generateImage(prompt, options)
ImageInputs ==
  {[prompt |-> "A sunset over mountains", options |-> None]}
    \cup {[prompt |-> "A sunset over mountains",
           options |-> Some([aspectRatio |-> a, resolution |-> r])] :
            a \in {None, Some("1:1"), Some("16:9")}, r \in {None, Some("1K"), Some("2K")}}

\* "image/png", "image/jpeg"
MimeTypes ==
  {<<"i", "m", "a", "g", "e", "/", "p", "n", "g">>,
   <<"i", "m", "a", "g", "e", "/", "j", "p", "e", "g">>}

\* the data a server sends for an image
ImageData ==
  {[imageBase64 |-> RawImage, mimeType |-> m, remainingRequests |-> 9] : m \in MimeTypes}

ImageReplies ==
  {[kind |-> "network_error", envelope |-> None], [kind |-> "unreadable", envelope |-> None]}
    \cup {[kind |-> "envelope", envelope |-> env] :
            env \in [success : BOOLEAN,
                     data    : {None} \cup {Some(d) : d \in ImageData},
                     error   : {None, Some([code |-> "QUOTA_EXCEEDED",
                                            message |-> "Quota exceeded"])}]}

MaxImageCalls == 1

DoGenerateImage ==
  \E input \in ImageInputs :
    Len(aiCalls) < MaxImageCalls /\ generateImage(input) /\ UNCHANGED appVars

DoImageRespond ==
  \E i \in 1..Len(aiCalls) : \E reply \in ImageReplies :
    ImageResponds(i, reply) /\ UNCHANGED appVars

NextImage == DoGenerateImage \/ DoImageRespond

SpecImage == Init /\ [][NextImage]_vars

\* the application: the handlers of the platform before it starts are any
InitApp ==
  /\ projectId \in {<<>>, SomeProject}
  /\ now = 0
  /\ lastErrorHash = <<>>
  /\ lastErrorTime = 0
  /\ calls = <<>>
  /\ posts = <<>>
  /\ aiCalls = <<>>
  /\ aiRequests = <<>>
  /\ globalHandler \in {None, Some(PlatformHandler)}
  /\ onunhandledrejection \in {None, Some(PlatformHandler)}
  /\ originalHandler = None
  /\ originalPromiseRejectionHandler = None
  /\ boundary = InitialBoundaryState
  /\ events = <<>>

MaxEvents == 3

DoMount == ~Mounted /\ Len(events) < MaxEvents /\ setupGlobalErrorHandlers

DoJsException ==
  \E error \in ErrorObjects : \E isFatal \in IsFatalArgs :
    Len(events) < MaxEvents /\ GlobalHandlerInvoked(error, isFatal)

DoRejection ==
  \E event \in RejectionEvents : Len(events) < MaxEvents /\ RejectionHandlerInvoked(event)

DoRenderFault ==
  \E error \in ErrorObjects : \E errorInfo \in ErrorInfos :
    Len(events) < MaxEvents /\ BoundaryCatches(error, errorInfo)

DoRetry == Len(events) < MaxEvents /\ TryAgainPressed

NextApp == DoMount \/ DoJsException \/ DoRejection \/ DoRenderFault \/ DoRetry \/ DoSettle

SpecApp == InitApp /\ [][NextApp]_vars

\* ------------------------------------------------ requests that complete
\* Calls of the reporter and of the AI client whose requests the network
\* completes sooner or later, each on its own.
MaxLiveCalls == 2

LiveCallIds == 1..MaxLiveCalls

\* the request of reportError call i completes
ReportCompletes(i) ==
  /\ i \in DOMAIN calls
  /\ \E outcome \in NetOutcomes : FetchSettles(i, outcome)
  /\ UNCHANGED appVars

\* one reply of each kind: the request fails, the body is no JSON, and the
\* envelopes without an error object
LiveReplies(op) == {r \in Replies(op) : r.kind = "envelope" => r.envelope.error = None}

\* one call of each operation
LiveInputs(op) ==
  {input \in AIInputs(op) : input.systemPrompt = None /\ input.imageBase64 \in {None, RawImage}}

\* "a.ts" on line 1, and "other" without a location
LiveErrors == {e \in DedupErrors : e.errorType = "js_error"}

\* the request of AI call i completes
AIRequestCompletes(i) ==
  /\ i \in DOMAIN aiCalls
  /\ \E reply \in LiveReplies(aiCalls[i].op) : AIResponds(i, reply)
  /\ UNCHANGED appVars

DoLiveReport ==
  \E e \in LiveErrors :
    Len(calls) + Len(aiCalls) < MaxLiveCalls /\ ReportError(e) /\ UNCHANGED appVars

DoLiveAICall ==
  \E op \in AIOps : \E input \in LiveInputs(op) :
    Len(calls) + Len(aiCalls) < MaxLiveCalls /\ AICall(op, input) /\ UNCHANGED appVars

DoReportCompletes == \E i \in LiveCallIds : ReportCompletes(i)

DoAIRequestCompletes == \E i \in LiveCallIds : AIRequestCompletes(i)

NextLive == DoLiveReport \/ DoLiveAICall \/ DoReportCompletes \/ DoAIRequestCompletes

\* every request that was issued completes or fails
RequestsComplete ==
  \A i \in LiveCallIds : WF_vars(ReportCompletes(i)) /\ WF_vars(AIRequestCompletes(i))

SpecLive == Init /\ [][NextLive]_vars /\ RequestsComplete

\* ------------------------------------------------- records with hyphens
\* 'x' in 'y-z' on line 1, 'x-y' in 'z' on line 1, 'x' without a file on
\* line 2, and 'x' in 'y' on line 1: messages and file names as callers
\* pass them, hyphens included
KeyErrors ==
  { MkError(<<"x">>, None, None, Some(<<"y", "-", "z">>), Some(1), None, "js_error"),
    MkError(<<"x", "-", "y">>, None, None, Some(<<"z">>), Some(1), None, "js_error"),
    MkError(<<"x">>, None, None, None, Some(2), None, "js_error"),
    MkError(<<"x">>, None, None, Some(<<"y">>), Some(1), None, "js_error") }

MaxKeyCalls == 2

DoReportKey ==
  \E e \in KeyErrors : Len(calls) < MaxKeyCalls /\ ReportError(e) /\ UNCHANGED appVars

NextKey == DoReportKey \/ DoSettle

SpecKey == Init /\ [][NextKey]_vars

\* ------------------------------------------------ a record reported again
\* reportError changes the record it is given, and a caller that keeps the
\* record can pass it again.
AgainErrors ==
  { MkError(MsgBoom, Some(st), cs, None, None, None, "react_error") :
      st \in LongStacks, cs \in ComponentStacks }

MaxAgainCalls == 2

DoReportFirst ==
  \E e \in AgainErrors : Len(calls) = 0 /\ ReportError(e) /\ UNCHANGED appVars

\* the record of the call before, as that call left it
DoReportAgain ==
  /\ Len(calls) >= 1
  /\ Len(calls) < MaxAgainCalls
  /\ ReportError(calls[Len(calls)].error)
  /\ UNCHANGED appVars

NextAgain == DoReportFirst \/ DoReportAgain \/ DoSettle \/ DoTick

SpecAgain == Init /\ [][NextAgain]_vars

\* ------------------------------------------- handlers, one call at a time
\* The handlers as the values they are: a closure holds the handler that its
\* run of setupGlobalErrorHandlers found installed.  Each run of a handler is
\* an event of its own, so that what a handler does before it calls the one
\* it chains to is a state.
PlatformClosure(slot) == [kind |-> "platform", slot |-> slot, original |-> None]

AppilyClosure(slot, original) == [kind |-> "appily", slot |-> slot, original |-> original]

\* a handler has been called and has not run yet
HandlerPending == events # <<>> /\ events[Len(events)].chained # <<>>

PendingCall == events[Len(events)].chained[1]

\* setupGlobalErrorHandlers(), which nothing in it keeps from running again
SetupRuns ==
  /\ IF ~isErrorReportingEnabled(projectId)
     THEN UNCHANGED handlerVars
     ELSE /\ originalHandler' = globalHandler
          /\ globalHandler' = Some(AppilyClosure("js", globalHandler))
          /\ originalPromiseRejectionHandler' = onunhandledrejection
          /\ onunhandledrejection' = Some(AppilyClosure("promise", onunhandledrejection))
  /\ events' = Append(events, AppEvent("setup", <<>>, 0, <<>>))
  /\ UNCHANGED <<projectId, now, lastErrorHash, lastErrorTime, calls, posts,
                 aiCalls, aiRequests, boundary>>

\* ErrorUtils calls the handler it holds with an uncaught exception
ExceptionRaised(error, isFatal) ==
  /\ events' = Append(events,
       AppEvent("js_exception", <<error, isFatal>>, 0,
                InvokeOriginal(globalHandler, <<error, isFatal>>)))
  /\ UNCHANGED <<projectId, now, lastErrorHash, lastErrorTime, calls, posts,
                 aiCalls, aiRequests, handlerVars, boundary>>

\* the engine calls global.onunhandledrejection with a rejection nobody handled
RejectionRaised(event) ==
  /\ events' = Append(events,
       AppEvent("unhandled_rejection", <<event>>, 0,
                InvokeOriginal(onunhandledrejection, <<event>>)))
  /\ UNCHANGED <<projectId, now, lastErrorHash, lastErrorTime, calls, posts,
                 aiCalls, aiRequests, handlerVars, boundary>>

\* the record the installed handler of a slot reports for its arguments
HandlerRecord(slot, args) ==
  IF slot = "js" THEN JsErrorRecord(args[1]) ELSE RejectionRecord(args[1].reason)

\* the handler that was called runs: an installed handler calls reportError,
\* which runs to its first await, and then calls the handler it holds
HandlerRuns ==
  /\ IF PendingCall.handler.kind = "appily"
     THEN /\ ReportError(HandlerRecord(PendingCall.handler.slot, PendingCall.args))
          /\ events' = Append(events,
               AppEvent("appily_handler", PendingCall.args, Len(calls) + 1,
                        InvokeOriginal(PendingCall.handler.original, PendingCall.args)))
          /\ UNCHANGED <<handlerVars, boundary>>
     ELSE /\ events' = Append(events,
               AppEvent("platform_handler", PendingCall.args, 0, <<>>))
          /\ UNCHANGED <<projectId, now, lastErrorHash, lastErrorTime, calls, posts,
                         aiCalls, aiRequests, handlerVars, boundary>>

\* what fetch rejects with: TypeError('Network request failed')
NetworkFailure ==
  [name    |-> <<"T", "y", "p", "e", "E", "r", "r", "o", "r">>,
   message |-> <<"N", "e", "t", "w", "o", "r", "k", " ", "r", "e", "q", "u", "e", "s", "t",
                 " ", "f", "a", "i", "l", "e", "d">>,
   stack   |-> None]

\* the { reason } event of a rejected promise of reportError, which no caller
\* awaits or catches
ReportRejection == [reason |-> [kind |-> "Error", error |-> Some(NetworkFailure), text |-> <<>>]]

RejectedReports == {i \in DOMAIN calls : calls[i].promise = "rejected"}

RaisedReportRejections ==
  {k \in DOMAIN events :
     events[k].source = "unhandled_rejection" /\ events[k].args = <<ReportRejection>>}

\* a request completes and the rest of reportError runs; a promise of
\* reportError that rejected is reported by the engine as unhandled first
CompletionOrRejection ==
  IF Cardinality(RejectedReports) > Cardinality(RaisedReportRejections)
  THEN RejectionRaised(ReportRejection)
  ELSE \E i \in 1..Len(calls) : \E outcome \in NetOutcomes :
         FetchSettles(i, outcome) /\ UNCHANGED appVars

InitHandlers ==
  /\ projectId \in {<<>>, SomeProject}
  /\ now = 0
  /\ lastErrorHash = <<>>
  /\ lastErrorTime = 0
  /\ calls = <<>>
  /\ posts = <<>>
  /\ aiCalls = <<>>
  /\ aiRequests = <<>>
  /\ globalHandler \in {None, Some(PlatformClosure("js"))}
  /\ onunhandledrejection \in {None, Some(PlatformClosure("promise"))}
  /\ originalHandler = None
  /\ originalPromiseRejectionHandler = None
  /\ boundary = InitialBoundaryState
  /\ events = <<>>

MaxSetups == 2

MaxRaised == 1

SetupEvents == {k \in DOMAIN events : events[k].source = "setup"}

RaisedEvents ==
  {k \in DOMAIN events : events[k].source \in {"js_exception", "unhandled_rejection"}}

DoSetup == ~HandlerPending /\ Cardinality(SetupEvents) < MaxSetups /\ SetupRuns

DoRaiseException ==
  \E error \in ErrorObjects : \E isFatal \in IsFatalArgs :
    /\ ~HandlerPending /\ Cardinality(RaisedEvents) < MaxRaised
    /\ ExceptionRaised(error, isFatal)

DoRaiseRejection ==
  \E event \in RejectionEvents :
    /\ ~HandlerPending /\ Cardinality(RaisedEvents) < MaxRaised
    /\ RejectionRaised(event)

DoHandlerRun == HandlerPending /\ HandlerRuns

DoCompletion == ~HandlerPending /\ CompletionOrRejection

NextHandlers == DoSetup \/ DoRaiseException \/ DoRaiseRejection \/ DoHandlerRun \/ DoCompletion

SpecHandlers == InitHandlers /\ [][NextHandlers]_vars

\* ------------------------------------------------------------ properties
Configured == projectId # <<>>

CallIds == 1..Len(calls)

\* a network call was issued for reportError call i
Posted(i) == \E p \in DOMAIN posts : posts[p].call = i

SameKey(i, j) == calls[i].key # None /\ calls[i].key = calls[j].key

\* <<filename, lineNumber, columnNumber>> of a record, and of a match
Location(error) == <<error.filename, error.lineNumber, error.columnNumber>>

MatchLocation(m) == <<Some(m[1].filename), Some(m[1].lineNumber), Some(m[1].columnNumber)>>

NoLocation == <<None, None, None>>

NoPatternMatches(line) == Match1(line) = None /\ Match2(line) = None /\ Match3(line) = None

\* the captures of the first of the three patterns, in order, that matches
FirstPatternLocation(line) ==
  IF Match1(line) # None THEN MatchLocation(Match1(line))
  ELSE IF Match2(line) # None THEN MatchLocation(Match2(line))
  ELSE MatchLocation(Match3(line))

\* C1 as stated: with a project id configured, of any two reportError calls
\* with the same dedup key that are less than 5 seconds apart the later one
\* issues no network call, whatever calls occur in between.
C1_AnyTwoWithinWindow ==
  \A i, j \in CallIds :
    (i < j /\ SameKey(i, j) /\ calls[j].at - calls[i].at < DEDUPE_WINDOW_MS)
      => ~Posted(j)

\* C1 as amended: with a project id configured, when a delivered report is
\* followed less than 5 seconds later by a call with the same dedup key, and
\* every call in between has that key too, the later call issues no network
\* call.
C1_SuppressedAfterDelivered ==
  \A i, j \in CallIds :
    (/\ i < j
     /\ Posted(i)
     /\ SameKey(i, j)
     /\ calls[j].at - calls[i].at < DEDUPE_WINDOW_MS
     /\ \A k \in CallIds : (i < k /\ k < j) => SameKey(i, k))
      => ~Posted(j) /\ calls[j].outcome = "dropped"

C1_Witness ==
  \E i, j \in CallIds :
    /\ j = i + 2
    /\ Posted(i)
    /\ SameKey(i, i + 1) /\ SameKey(i, j)
    /\ calls[j].at - calls[i].at < DEDUPE_WINDOW_MS
    /\ calls[j].at > calls[i].at
    /\ ~Posted(j)

\* C2: with a project id configured, a reportError call whose key is that of
\* an earlier delivered report is delivered again (a POST is issued) once 5
\* seconds have elapsed since the delivered report with that key (the latest
\* one, when there are several); 5000 ms exactly is enough.
C2_DeliveredAgainAfterWindow ==
  \A j \in CallIds :
    (/\ Configured
     /\ \E i \in CallIds : i < j /\ Posted(i) /\ SameKey(i, j)
     /\ \A i \in CallIds :
          (i < j /\ Posted(i) /\ SameKey(i, j))
            => calls[j].at - calls[i].at >= DEDUPE_WINDOW_MS)
      => Posted(j) /\ calls[j].outcome = "posted"

C2_Witness ==
  \E i, j \in CallIds :
    /\ i < j
    /\ Posted(i) /\ Posted(j)
    /\ SameKey(i, j)
    /\ calls[j].at - calls[i].at = DEDUPE_WINDOW_MS
    /\ \A k \in CallIds : (i < k /\ k < j) => ~Posted(k)

\* C3: reportError never throws or rejects to its caller: whatever the record
\* and whatever the request does (fetch rejects, non-success status), the
\* returned promise is never rejected, and it is resolved once the request
\* has completed.
C3_NeverRejects ==
  \A i \in CallIds :
    /\ calls[i].promise # "rejected"
    /\ (calls[i].net \in NetOutcomes \cup {"none"}) => calls[i].promise = "resolved"

C3_Witness ==
  /\ \E i \in CallIds : calls[i].net = "network_error" /\ calls[i].promise = "resolved"
  /\ \E i \in CallIds : calls[i].net = "http_error" /\ calls[i].promise = "resolved"

\* C4: with no project id configured reportError is a no-op: no network call
\* is issued, lastErrorHash and lastErrorTime keep their values, and the
\* record passed is left as it was (not parsed, not truncated).
C4_NoProjectIdNoOp ==
  ~Configured =>
    /\ posts = <<>>
    /\ lastErrorHash = <<>> /\ lastErrorTime = 0
    /\ \A i \in CallIds : calls[i].error = calls[i].arg /\ calls[i].net = "none"

C4_Witness ==
  /\ ~Configured
  /\ \E i \in CallIds :
       /\ calls[i].outcome = "skipped"
       /\ calls[i].arg.filename = None
       /\ calls[i].arg.stack = Some(LongStack(MAX_STACK_LENGTH + 1))
       /\ calls[i].error = calls[i].arg

\* what C7 says of one field: its input text and the text transmitted
TruncatedAsClaimed(given, sent) ==
  IF given # None /\ Len(given[1]) > MAX_STACK_LENGTH
  THEN /\ sent # None
       /\ Len(sent[1]) = MAX_STACK_LENGTH + Len(TruncationMarker)
       /\ \A k \in 1..MAX_STACK_LENGTH : sent[1][k] = given[1][k]
       /\ \A k \in 1..Len(TruncationMarker) :
            sent[1][MAX_STACK_LENGTH + k] = TruncationMarker[k]
  ELSE sent = given

\* C7: in every POST of reportError, stack and componentStack are each
\* transmitted as their first 5000 characters followed by the truncation
\* marker when longer than 5000 characters and unchanged otherwise, each
\* field by its own length alone.
C7_TruncatedIndependently ==
  \A p \in DOMAIN posts :
    /\ TruncatedAsClaimed(calls[posts[p].call].arg.stack, posts[p].body.error.stack)
    /\ TruncatedAsClaimed(calls[posts[p].call].arg.componentStack,
                          posts[p].body.error.componentStack)

C7_Witness ==
  \E p \in DOMAIN posts :
    /\ calls[posts[p].call].arg.stack = Some(LongStack(MAX_STACK_LENGTH + 1))
    /\ calls[posts[p].call].arg.componentStack = Some(Pad(MAX_STACK_LENGTH))
    /\ Len(posts[p].body.error.stack[1]) = MAX_STACK_LENGTH + Len(TruncationMarker)
    /\ posts[p].body.error.componentStack = Some(Pad(MAX_STACK_LENGTH))

\* C8: for a record without filename whose stack is one line of the form
\* "at <name> (<file>:<line>:<col>)", the file without colon, reportError
\* (project id configured) sets filename to <file> and lineNumber and
\* columnNumber to the integers <line> and <col>; "at Foo (bar.tsx:12:3)"
\* gives bar.tsx, 12 and 3.
C8_FunctionCallForm ==
  \A i \in CallIds :
    (Configured /\ ~TruthyStr(calls[i].arg.filename)) =>
      /\ \A n \in Names, f \in Files, l \in LineDigits, c \in ColDigits :
           calls[i].arg.stack = Some(FnCallLine(n, f, l, c))
             => Location(calls[i].error) = <<Some(f), Some(ParseInt(l)), Some(ParseInt(c))>>
      /\ calls[i].arg.stack = Some(<<"a", "t", " ", "F", "o", "o", " ", "(", "b", "a", "r", ".", "t", "s", "x", ":", "1", "2", ":", "3", ")">>)
           => Location(calls[i].error) = <<Some(<<"b", "a", "r", ".", "t", "s", "x">>), Some(12), Some(3)>>

C8_Witness ==
  \E i \in CallIds :
    /\ Configured
    /\ calls[i].arg.filename = None
    /\ calls[i].arg.stack = Some(<<"a", "t", " ", "F", "o", "o", " ", "(", "b", "a", "r", ".", "t", "s", "x", ":", "1", "2", ":", "3", ")">>)
    /\ calls[i].error.filename = Some(<<"b", "a", "r", ".", "t", "s", "x">>)
    /\ calls[i].error.lineNumber = Some(12)
    /\ calls[i].error.columnNumber = Some(3)

\* the calls C9 is about: filename absent, stack present, not skipped
RecoversLocation(i) ==
  Configured /\ ~TruthyStr(calls[i].arg.filename) /\ TruthyStr(calls[i].arg.stack)

\* C9 as stated: only the first line of the stack is matched against the
\* three patterns in order, the first matching pattern wins, and when the
\* first line matches none the three fields stay unset.
C9_FirstLineOnly ==
  \A i \in CallIds :
    RecoversLocation(i) =>
      LET first == SplitLines(calls[i].arg.stack[1])[1]
      IN  Location(calls[i].error) =
            IF NoPatternMatches(first) THEN NoLocation ELSE FirstPatternLocation(first)

\* C9 as amended: the lines of the stack are tried in order, each against
\* the three patterns in order; the first line that matches a pattern gives
\* the location, by the first pattern that matches it, and the three fields
\* are unset only when no line matches.
C9_FirstMatchingLine ==
  \A i \in CallIds :
    RecoversLocation(i) =>
      LET lines == SplitLines(calls[i].arg.stack[1])
      IN  /\ (\A k \in DOMAIN lines : NoPatternMatches(lines[k]))
               => Location(calls[i].error) = NoLocation
          /\ \A k \in DOMAIN lines :
               (/\ ~NoPatternMatches(lines[k])
                /\ \A j \in 1..(k - 1) : NoPatternMatches(lines[j]))
                 => Location(calls[i].error) = FirstPatternLocation(lines[k])

C9_Witness ==
  \E i \in CallIds :
    /\ RecoversLocation(i)
    /\ Len(SplitLines(calls[i].arg.stack[1])) = 2
    /\ NoPatternMatches(SplitLines(calls[i].arg.stack[1])[1])
    /\ Match1(SplitLines(calls[i].arg.stack[1])[2]) # None
    /\ Location(calls[i].error) = <<Some(<<"b", "a", "r", ".", "t", "s", "x">>), Some(12), Some(3)>>

AICallIds == 1..Len(aiCalls)

\* C5: every AI client operation called while no project id is configured
\* rejects with the configuration error and issues no network request.
C5_UnconfiguredRejects ==
  ~Configured =>
    /\ aiRequests = <<>>
    /\ \A i \in AICallIds :
         /\ aiCalls[i].promise = "rejected"
         /\ aiCalls[i].reason = Some("AI not configured - project ID missing")
         /\ aiCalls[i].request = 0

C5_Witness ==
  /\ ~Configured
  /\ \E i, j \in AICallIds :
       /\ aiCalls[i].op = "checkAIQuota" /\ aiCalls[i].promise = "rejected"
       /\ aiCalls[j].op = "analyzeImage" /\ aiCalls[j].promise = "rejected"

\* the fields C6 names for each operation, from the data of an envelope
ClaimedResult(op, d) ==
  IF op = "generateText"
  THEN [text |-> d.text, remainingRequests |-> d.remainingRequests]
  ELSE IF op = "checkAIQuota"
  THEN [remaining |-> d.remainingRequests, max |-> d.maxRequests, periodEnd |-> d.periodEnd]
  ELSE [analysis |-> d.analysis, remainingRequests |-> d.remainingRequests]

ClaimedDefault(op) ==
  IF op = "generateText" THEN "AI text generation failed"
  ELSE IF op = "checkAIQuota" THEN "Failed to check AI quota"
  ELSE "AI image analysis failed"

\* the server gave a message: an error object with a non-empty message
ServerMessage(env) ==
  IF env.error # None /\ env.error[1].message # "" THEN Some(env.error[1].message) ELSE None

\* C6: once an envelope {success, data, error} is received, the call resolves
\* exactly when success is true and data is present, with exactly the mapped
\* fields of data; otherwise it rejects with the server's error.message, or
\* with the operation's default message when the server gave none (no error
\* object, or an empty message).
C6_EnvelopeUnwrapped ==
  \A i \in AICallIds :
    (aiCalls[i].reply # None /\ aiCalls[i].reply[1].kind = "envelope") =>
      LET env == aiCalls[i].reply[1].envelope
          op  == aiCalls[i].op
      IN  IF env.success /\ env.data # None
          THEN /\ aiCalls[i].promise = "resolved"
               /\ aiCalls[i].value = Some(ClaimedResult(op, env.data[1]))
               /\ aiCalls[i].reason = None
          ELSE /\ aiCalls[i].promise = "rejected"
               /\ aiCalls[i].value = None
               /\ aiCalls[i].reason =
                    IF ServerMessage(env) # None THEN ServerMessage(env)
                    ELSE Some(ClaimedDefault(op))

C6_Witness ==
  \E i, j \in AICallIds :
    /\ aiCalls[i].op = "checkAIQuota"
    /\ aiCalls[i].promise = "resolved"
    /\ aiCalls[i].value = Some([remaining |-> 39, max |-> 50,
                                periodEnd |-> "2026-02-01T00:00:00.000Z"])
    /\ aiCalls[j].op = "generateText"
    /\ aiCalls[j].reply # None
    /\ aiCalls[j].reply[1].kind = "envelope"
    /\ aiCalls[j].reply[1].envelope.success
    /\ aiCalls[j].reply[1].envelope.data = None
    /\ aiCalls[j].reason = Some("Quota exceeded")

CommaPositions(text) == {k \in 1..Len(text) : text[k] = ","}

\* C10: analyzeImage sends as imageBase64 only the base64 body: the part
\* after the comma of "<data-URL prefix>,<body>" (prefix and body hold no
\* comma), the input itself when it has no such prefix, and stripping what it
\* sends again changes nothing; "data:image/png;base64,AAAA" is sent as "AAAA".
C10_OnlyBase64Body ==
  \A r \in DOMAIN aiRequests :
    aiCalls[aiRequests[r].call].op = "analyzeImage" =>
      LET given == aiCalls[aiRequests[r].call].input.imageBase64
          sent  == aiRequests[r].body.imageBase64
      IN  /\ CommaPositions(given) = {} => sent = given
          /\ \A k \in CommaPositions(given) :
               CommaPositions(given) = {k} => sent = SubSeq(given, k + 1, Len(given))
          /\ given = <<"d", "a", "t", "a", ":", "i", "m", "a", "g", "e", "/", "p", "n", "g", ";", "b", "a", "s", "e", "6", "4", ",", "A", "A", "A", "A">> => sent = <<"A", "A", "A", "A">>
          /\ cleanBase64(sent) = sent

C10_Witness ==
  \E r \in DOMAIN aiRequests :
    /\ aiCalls[aiRequests[r].call].op = "analyzeImage"
    /\ aiCalls[aiRequests[r].call].input.imageBase64 = <<"d", "a", "t", "a", ":", "i", "m", "a", "g", "e", "/", "p", "n", "g", ";", "b", "a", "s", "e", "6", "4", ",", "A", "A", "A", "A">>
    /\ aiRequests[r].body.imageBase64 = <<"A", "A", "A", "A">>

\* ------------------------------------------- properties of the application
EventIds == DOMAIN events

\* event k ran a handler that setupGlobalErrorHandlers installed
ByInstalledHandler(k) ==
  events[k].source \in {"js_exception", "unhandled_rejection"} /\ events[k].report # 0

\* the handler setup found installed in the place event k came through
CapturedFor(k) ==
  IF events[k].source = "js_exception"
  THEN originalHandler
  ELSE originalPromiseRejectionHandler

\* C11: after setupGlobalErrorHandlers has run with reporting configured,
\* every invocation of the installed global JS exception handler and of the
\* installed unhandled-rejection handler calls the handler that was installed
\* before setup exactly once with the same arguments when one existed (and
\* calls nothing when none did), whether the report is delivered, suppressed
\* as a duplicate or fails.
C11_ChainsToPrevious ==
  \A k \in EventIds :
    ByInstalledHandler(k) =>
      /\ Mounted /\ Configured
      /\ events[k].chained =
           IF CapturedFor(k) = None THEN <<>>
           ELSE <<HandlerCall(PlatformHandler, events[k].args)>>

\* both handlers chained to a handler of the platform: one report was
\* suppressed as a duplicate, the other's delivery failed
C11_Witness ==
  \E j, k \in EventIds :
    /\ ByInstalledHandler(j) /\ ByInstalledHandler(k)
    /\ events[j].source = "js_exception" /\ events[k].source = "unhandled_rejection"
    /\ calls[events[j].report].net = "network_error"
    /\ calls[events[k].report].outcome = "dropped"
    /\ events[j].chained = <<HandlerCall(PlatformHandler, events[j].args)>>
    /\ events[k].chained = <<HandlerCall(PlatformHandler, events[k].args)>>

\* C12: when no project id is configured, setupGlobalErrorHandlers leaves the
\* global JS exception handler and global.onunhandledrejection exactly as
\* they were.
C12_SetupNoOpWhenUnconfigured ==
  [][(~Configured /\ ~Mounted /\ Mounted')
       => (globalHandler' = globalHandler /\ onunhandledrejection' = onunhandledrejection)]_vars

\* setup has run without a project id, and a later exception went straight
\* to the handler of the platform
C12_Witness ==
  /\ ~Configured /\ Mounted
  /\ globalHandler = Some(PlatformHandler) /\ onunhandledrejection = Some(PlatformHandler)
  /\ \E j, k \in EventIds :
       /\ j < k /\ events[j].source = "mount" /\ events[k].source = "js_exception"
       /\ events[k].report = 0
       /\ events[k].chained = <<HandlerCall(PlatformHandler, events[k].args)>>

BoundaryEvents == {k \in EventIds : events[k].source \in {"render_fault", "retry"}}

RenderFaults == {k \in EventIds : events[k].source = "render_fault"}

LastBoundaryEvent == CHOOSE k \in BoundaryEvents : \A j \in BoundaryEvents : j <= k

\* the state the claim gives the boundary after the events so far
ClaimedBoundaryState ==
  IF BoundaryEvents = {} THEN [hasError |-> FALSE, error |-> None, errorInfo |-> None]
  ELSE IF events[LastBoundaryEvent].source = "retry"
       THEN [hasError |-> FALSE, error |-> None, errorInfo |-> None]
       ELSE [hasError  |-> TRUE,
             error     |-> Some(events[LastBoundaryEvent].args[1]),
             errorInfo |-> Some(events[LastBoundaryEvent].args[2])]

\* C13: the ErrorBoundary starts in normal rendering; each render-time fault
\* it catches switches it to the fallback display and calls reportError
\* exactly once, with errorType react_error; it shows the fallback until the
\* retry action, whatever else happens, and the retry action resets hasError,
\* error and errorInfo to their initial values, so the children render again.
C13_BoundaryLifecycle ==
  /\ boundary = ClaimedBoundaryState
  /\ render(boundary) = IF boundary.hasError THEN "fallback" ELSE "children"
  /\ \A k \in RenderFaults :
       /\ events[k].report \in CallIds
       /\ calls[events[k].report].arg.errorType = "react_error"
  /\ Cardinality({c \in CallIds : calls[c].arg.errorType = "react_error"})
       = Cardinality(RenderFaults)

\* a fault was caught and reported, the user retried, and the children render
C13_Witness ==
  \E j, k \in EventIds :
    /\ j < k /\ events[j].source = "render_fault" /\ events[k].source = "retry"
    /\ k = LastBoundaryEvent
    /\ calls[events[j].report].outcome = "posted"
    /\ boundary.error = None /\ render(boundary) = "children"

ExpectedErrorType(source) ==
  CASE source = "js_exception"        -> "js_error"
    [] source = "unhandled_rejection" -> "unhandled_promise"
    [] source = "render_fault"        -> "react_error"

\* C15: the global JS exception handler reports js_error, the unhandled
\* promise rejection handler reports unhandled_promise and the render-error
\* boundary reports react_error; reportError leaves the errorType of the
\* record as it was, in the record and in what it sends.
C15_FixedErrorType ==
  \A k \in EventIds :
    events[k].report # 0 =>
      /\ calls[events[k].report].arg.errorType = ExpectedErrorType(events[k].source)
      /\ calls[events[k].report].error.errorType = calls[events[k].report].arg.errorType
      /\ \A p \in DOMAIN posts :
           posts[p].call = events[k].report =>
             posts[p].body.error.errorType = calls[events[k].report].arg.errorType

\* a rejection and a render fault were both reported and sent
C15_Witness ==
  \E j, k \in EventIds :
    /\ events[j].source = "unhandled_rejection" /\ events[k].source = "render_fault"
    /\ \E p, q \in DOMAIN posts :
         /\ posts[p].call = events[j].report /\ posts[q].call = events[k].report
         /\ posts[p].body.error.errorType = "unhandled_promise"
         /\ posts[q].body.error.errorType = "react_error"

PostsOf(i) == {p \in DOMAIN posts : posts[p].call = i}

RequestsOf(i) == {r \in DOMAIN aiRequests : aiRequests[r].call = i}

\* C14: no retries: each reportError call issues at most one POST to the
\* error-ingestion endpoint, exactly one when the report is neither skipped
\* nor dropped, and each AI client call issues at most one HTTP request,
\* whatever the outcome of that request.
C14_NoRetries ==
  /\ \A i \in CallIds :
       /\ Cardinality(PostsOf(i)) = IF calls[i].outcome = "posted" THEN 1 ELSE 0
       /\ \A p \in PostsOf(i) : posts[p].path = "/api/errors/report"
  /\ \A i \in AICallIds : Cardinality(RequestsOf(i)) <= 1
  /\ Len(posts) <= Len(calls) /\ Len(aiRequests) <= Len(aiCalls)

\* a report whose delivery failed and an AI call whose request failed, each
\* with the one request it issued
C14_Witness ==
  \E i \in CallIds : \E j \in AICallIds :
    /\ calls[i].net \in {"http_error", "network_error"}
    /\ Cardinality(PostsOf(i)) = 1
    /\ aiCalls[j].promise = "rejected" /\ aiCalls[j].reply # None
    /\ Cardinality(RequestsOf(j)) = 1

\* "data:image/png;base64,AAAA" is PngDataUrl; "data:image/jpeg;base64,AAAA":
JpegDataUrl == <<"d", "a", "t", "a", ":", "i", "m", "a", "g", "e", "/", "j", "p", "e", "g", ";", "b", "a", "s", "e", "6", "4", ",", "A", "A", "A", "A">>

\* the data URL the claim gives for the data a server returned
ClaimedDataUrl(d) ==
  IF d.mimeType = <<"i", "m", "a", "g", "e", "/", "p", "n", "g">> /\ d.imageBase64 = RawImage
  THEN PngDataUrl
  ELSE IF d.mimeType = <<"i", "m", "a", "g", "e", "/", "j", "p", "e", "g">>
          /\ d.imageBase64 = RawImage
       THEN JpegDataUrl
       ELSE <<>>

\* C16: generateImage called with no options sends aspect ratio 1:1 and
\* resolution 1K, and the imageBase64 of its result is the data URL
\* "data:{mimeType};base64," followed by the returned image data.
C16_GenerateImageDefaults ==
  \A i \in AICallIds :
    aiCalls[i].op = "generateImage" =>
      /\ (aiCalls[i].input.options = None /\ aiCalls[i].request # 0) =>
           /\ aiRequests[aiCalls[i].request].body.aspectRatio = "1:1"
           /\ aiRequests[aiCalls[i].request].body.resolution = "1K"
      /\ aiCalls[i].promise = "resolved" =>
           aiCalls[i].value[1].imageBase64
             = ClaimedDataUrl(aiCalls[i].reply[1].envelope.data[1])

\* generateImage without options resolved with a JPEG
C16_Witness ==
  \E i \in AICallIds :
    /\ aiCalls[i].op = "generateImage" /\ aiCalls[i].input.options = None
    /\ aiCalls[i].promise = "resolved"
    /\ aiRequests[aiCalls[i].request].body.aspectRatio = "1:1"
    /\ aiRequests[aiCalls[i].request].body.resolution = "1K"
    /\ aiCalls[i].value[1].imageBase64 = JpegDataUrl

\* ------------------------------------------ properties of the dedup state
PostedBefore(j) == {i \in CallIds : i < j /\ calls[i].outcome = "posted"}

\* the most recent call before call j that was neither skipped nor dropped
LastPostedBefore(j) == CHOOSE i \in PostedBefore(j) : \A h \in PostedBefore(j) : h <= i

\* C17 as stated: with a project id configured, a reportError call is dropped
\* if and only if its key equals the key of the call just before it and less
\* than 5 seconds have elapsed since that call, whether or not that call was
\* itself dropped.
C17_DroppedIffPrecedingCall ==
  Configured =>
    \A j \in CallIds :
      (calls[j].outcome = "dropped")
        <=> (/\ j > 1
             /\ SameKey(j - 1, j)
             /\ calls[j].at - calls[j - 1].at < DEDUPE_WINDOW_MS)

\* C17 as amended: with a project id configured, a reportError call is
\* dropped if and only if its key equals the key of the most recent earlier
\* call that was not dropped and less than 5 seconds have elapsed since that
\* call; a dropped call in between does not restart the window.
C17_DroppedIffLastDelivered ==
  Configured =>
    \A j \in CallIds :
      (calls[j].outcome = "dropped")
        <=> (/\ PostedBefore(j) # {}
             /\ SameKey(LastPostedBefore(j), j)
             /\ calls[j].at - calls[LastPostedBefore(j)].at < DEDUPE_WINDOW_MS)

\* a call delivered less than 5 seconds after a dropped call with its key,
\* 5 seconds or more after the delivered one
C17_Witness ==
  /\ Configured
  /\ \E j \in CallIds :
       /\ j > 2 /\ calls[j].outcome = "posted" /\ calls[j - 1].outcome = "dropped"
       /\ SameKey(j - 1, j)
       /\ calls[j].at - calls[j - 1].at < DEDUPE_WINDOW_MS
       /\ calls[j].at - calls[LastPostedBefore(j)].at >= DEDUPE_WINDOW_MS

\* C18: a reportError call that is dropped as a duplicate leaves
\* lastErrorHash and lastErrorTime as the last report that was not dropped
\* set them, and issues no network call.
C18_DropLeavesStateUnchanged ==
  [][(Len(calls') = Len(calls) + 1 /\ calls'[Len(calls')].outcome = "dropped")
       => /\ lastErrorHash' = lastErrorHash
          /\ lastErrorTime' = lastErrorTime
          /\ posts' = posts
          /\ lastErrorHash = calls[LastPostedBefore(Len(calls) + 1)].key[1]
          /\ lastErrorTime = calls[LastPostedBefore(Len(calls) + 1)].at]_vars

\* the last call was dropped some time after the one delivered report
C18_Witness ==
  /\ Len(calls) >= 2 /\ calls[Len(calls)].outcome = "dropped"
  /\ calls[Len(calls)].at > lastErrorTime
  /\ now = calls[Len(calls)].at
  /\ Len(posts) = 1 /\ lastErrorHash = posts[1].body.error.message \o <<"-">> \o FileA \o <<"-", "1">>

\* C19: the dedup state changes on every report that is neither skipped nor
\* dropped and only then: lastErrorHash and lastErrorTime are the key and the
\* time of the latest such call, from the moment of the call and whatever
\* the delivery does, so a report with that key less than 5 seconds after a
\* report whose delivery failed is suppressed.
C19_DedupStateFollowsReports ==
  /\ PostedBefore(Len(calls) + 1) = {} => (lastErrorHash = <<>> /\ lastErrorTime = 0)
  /\ PostedBefore(Len(calls) + 1) # {} =>
       /\ lastErrorHash = calls[LastPostedBefore(Len(calls) + 1)].key[1]
       /\ lastErrorTime = calls[LastPostedBefore(Len(calls) + 1)].at
  /\ \A i, j \in CallIds :
       (/\ i < j
        /\ calls[i].outcome = "posted"
        /\ calls[i].net \in {"http_error", "network_error"}
        /\ \A h \in (i + 1)..j : SameKey(i, h)
        /\ calls[j].at - calls[i].at < DEDUPE_WINDOW_MS)
         => (calls[j].outcome = "dropped" /\ ~Posted(j))

\* a delivery failed and the same report, made later within the window, was
\* suppressed; the state is that of the failed report
C19_Witness ==
  \E i, j \in CallIds :
    /\ i < j /\ calls[i].outcome = "posted" /\ calls[i].net = "network_error"
    /\ SameKey(i, j) /\ calls[j].at > calls[i].at /\ calls[j].outcome = "dropped"
    /\ lastErrorHash = calls[i].key[1] /\ lastErrorTime = calls[i].at

SameMessageFileLine(i, j) ==
  /\ calls[i].error.message = calls[j].error.message
  /\ calls[i].error.filename = calls[j].error.filename
  /\ calls[i].error.lineNumber = calls[j].error.lineNumber

\* C20 as stated: the dedup key ignores errorType and componentStack: with a
\* project id configured, when a react_error and a js_error with the same
\* message, filename and lineNumber are reported one after the other less
\* than 5 seconds apart, the second is dropped.
C20_AnyConsecutivePair ==
  Configured =>
    \A i, j \in CallIds :
      (/\ j = i + 1
       /\ {calls[i].error.errorType, calls[j].arg.errorType} = {"react_error", "js_error"}
       /\ SameMessageFileLine(i, j)
       /\ calls[j].at - calls[i].at < DEDUPE_WINDOW_MS)
        => (calls[j].outcome = "dropped" /\ ~Posted(j))

\* C20 as amended: the dedup key ignores errorType and componentStack: when
\* a react_error and a js_error with the same message, filename and
\* lineNumber are reported one after the other less than 5 seconds apart and
\* the first of them was sent, the second is dropped as its duplicate.
C20_TypeIgnoredByKey ==
  \A i, j \in CallIds :
    (/\ j = i + 1
     /\ calls[i].outcome = "posted"
     /\ {calls[i].error.errorType, calls[j].arg.errorType} = {"react_error", "js_error"}
     /\ SameMessageFileLine(i, j)
     /\ calls[j].at - calls[i].at < DEDUPE_WINDOW_MS)
      => (calls[j].outcome = "dropped" /\ ~Posted(j))

\* a js_error was sent and a react_error with a component stack, reported
\* later within the window, was dropped
C20_Witness ==
  \E i \in CallIds :
    /\ i + 1 \in CallIds
    /\ calls[i].outcome = "posted" /\ calls[i].error.errorType = "js_error"
    /\ calls[i + 1].error.errorType = "react_error"
    /\ calls[i + 1].error.componentStack # None
    /\ calls[i].error.componentStack = None
    /\ SameMessageFileLine(i, i + 1)
    /\ calls[i + 1].at > calls[i].at
    /\ calls[i + 1].outcome = "dropped"

\* C21: the dedup check and the dedup-state update of a reportError call run
\* without another call in between: when a call with the key of the call
\* before it starts less than 5 seconds after it, while the POST of that call
\* is still in flight, it is suppressed, and the two calls have one POST
\* between them, whenever the request completes.
C21_SuppressedWhileInFlight ==
  /\ [][(/\ Len(calls') = Len(calls) + 1
         /\ Len(calls) >= 1
         /\ calls[Len(calls)].net = "pending"
         /\ calls'[Len(calls')].key = calls[Len(calls)].key
         /\ now - calls[Len(calls)].at < DEDUPE_WINDOW_MS)
          => /\ calls'[Len(calls')].outcome = "dropped"
             /\ posts' = posts
             /\ Cardinality(PostsOf(Len(calls))) = 1]_vars
  /\ [](\A i \in CallIds :
          (/\ i + 1 \in CallIds
           /\ calls[i].outcome = "posted"
           /\ SameKey(i, i + 1)
           /\ calls[i + 1].at - calls[i].at < DEDUPE_WINDOW_MS)
            => Cardinality(PostsOf(i) \cup PostsOf(i + 1)) = 1)

\* the second call came later, while the POST of the first is still in
\* flight, and was dropped
C21_Witness ==
  /\ Len(calls) >= 2
  /\ calls[1].outcome = "posted" /\ calls[1].net = "pending"
  /\ SameKey(1, 2) /\ calls[2].at > calls[1].at
  /\ calls[2].outcome = "dropped"
  /\ Len(posts) = 1

\* ---------------------------------------------------- handler runs, properties
HandlerRunIds ==
  {k \in DOMAIN events : events[k].source \in {"appily_handler", "platform_handler"}}

\* the handler runs that a raised error k led to, one calling the next
ChainOf(k) == {j \in HandlerRunIds : j > k /\ \A m \in (k + 1)..j : m \in HandlerRunIds}

ChainDone(k) ==
  \A j \in ChainOf(k) \cup {k} : j + 1 \in ChainOf(k) \/ events[j].chained = <<>>

SetupsBefore(k) == {j \in SetupEvents : j < k}

RECURSIVE Innermost(_)
Innermost(h) == IF h.original = None THEN h ELSE Innermost(h.original[1])

ReportsOfChain(k) == {j \in ChainOf(k) : events[j].source = "appily_handler"}

PlatformRunsOfChain(k) == {j \in ChainOf(k) : events[j].source = "platform_handler"}

\* C22: with reporting configured, however many times
\* setupGlobalErrorHandlers has run (at least once), one uncaught exception or
\* unhandled rejection leads to exactly one reportError call and to exactly
\* one run of the handler that was installed before the first setup (none
\* when there was none).
C22_SetupIdempotent ==
  \A k \in RaisedEvents :
    (Configured /\ SetupsBefore(k) # {} /\ ChainDone(k))
      => /\ Cardinality(ReportsOfChain(k)) = 1
         /\ Cardinality(PlatformRunsOfChain(k))
              = IF Innermost(events[k].chained[1].handler).kind = "platform" THEN 1 ELSE 0

\* C27: when an installed handler is about to call the handler it holds, its
\* reportError call has already run to its first await: for a report that is
\* not a duplicate the dedup state holds its key and time and its POST has
\* been issued; and the held handler runs while that POST is still pending.
C27_ReportStartedBeforeChaining ==
  /\ []((HandlerPending /\ events[Len(events)].source = "appily_handler")
          => \E r \in {events[Len(events)].report} :
               /\ r = Len(calls)
               /\ calls[r].outcome \in {"posted", "dropped"}
               /\ calls[r].outcome = "posted"
                    => /\ lastErrorHash = calls[r].key[1]
                       /\ lastErrorTime = calls[r].at
                       /\ Cardinality(PostsOf(r)) = 1
                       /\ calls[r].net = "pending")
  /\ [][(HandlerPending /\ events[Len(events)].source = "appily_handler")
          => /\ Len(events') = Len(events) + 1
             /\ events'[Len(events')].source \in {"appily_handler", "platform_handler"}
             /\ events'[Len(events')].args = events[Len(events)].args
             /\ calls'[events[Len(events)].report].net = calls[events[Len(events)].report].net
             /\ calls'[events[Len(events)].report].promise
                  = calls[events[Len(events)].report].promise]_vars

C27_Witness ==
  /\ Len(events) >= 2
  /\ events[Len(events)].source = "platform_handler"
  /\ events[Len(events) - 1].source = "appily_handler"
  /\ calls[events[Len(events) - 1].report].outcome = "posted"
  /\ calls[events[Len(events) - 1].report].net = "pending"
  /\ Cardinality(PostsOf(events[Len(events) - 1].report)) = 1

FailedDeliveries == {i \in DOMAIN calls : calls[i].net \in {"http_error", "network_error"}}

\* C30: a reportError call whose delivery failed has resolved; no promise of
\* reportError is ever rejected, the engine never reports one as unhandled,
\* and every reportError call was made by a handler run for an error raised
\* outside the reporter.
C30_NoFeedback ==
  /\ \A i \in FailedDeliveries : calls[i].promise = "resolved"
  /\ RejectedReports = {}
  /\ RaisedReportRejections = {}
  /\ Len(calls) = Cardinality({j \in HandlerRunIds : events[j].source = "appily_handler"})
  /\ \A j \in HandlerRunIds : events[j].args # <<ReportRejection>>

C30_Witness ==
  /\ \E i \in FailedDeliveries : calls[i].net = "network_error" /\ calls[i].promise = "resolved"
  /\ ~HandlerPending
  /\ Len(calls) = 2
  /\ onunhandledrejection # None /\ onunhandledrejection[1].kind = "appily"

\* C23: reportError leaves every location field the caller supplied as it
\* was: a filename, lineNumber or columnNumber present in the argument has
\* the same value in the record afterwards, whether or not the record has a
\* filename or a stack.
C23_CallerLocationKept ==
  \A i \in CallIds :
    calls[i].outcome # "skipped"
      => /\ calls[i].arg.filename # None => calls[i].error.filename = calls[i].arg.filename
         /\ calls[i].arg.lineNumber # None => calls[i].error.lineNumber = calls[i].arg.lineNumber
         /\ calls[i].arg.columnNumber # None
              => calls[i].error.columnNumber = calls[i].arg.columnNumber

\* the replies that are failures: the request fails, the body is not an
\* envelope, or the envelope has success false or no data
FailureReply(reply) ==
  \/ reply.kind \in {"network_error", "unreadable"}
  \/ reply.kind = "envelope" /\ (~reply.envelope.success \/ reply.envelope.data = None)

\* C24: an AI call whose request ended in a failure has rejected, with a
\* reason and without a value; a call has a value exactly when it resolved
\* and a reason exactly when it rejected; and a call that has settled never
\* changes again.
C24_FailureIsOneRejection ==
  /\ [](\A i \in AICallIds :
          /\ (aiCalls[i].reply # None /\ FailureReply(aiCalls[i].reply[1]))
               => aiCalls[i].promise = "rejected"
          /\ aiCalls[i].promise = "rejected" <=> aiCalls[i].reason # None
          /\ aiCalls[i].promise = "resolved" <=> aiCalls[i].value # None
          /\ aiCalls[i].promise = "pending" <=> (aiCalls[i].request # 0 /\ aiCalls[i].reply = None))
  /\ [][\A i \in AICallIds : aiCalls[i].promise # "pending" => aiCalls'[i] = aiCalls[i]]_vars

C24_Witness ==
  /\ Len(aiCalls) = 2
  /\ aiCalls[1].reply # None /\ aiCalls[1].reply[1].kind = "envelope"
  /\ ~aiCalls[1].reply[1].envelope.success /\ aiCalls[1].reply[1].envelope.data # None
  /\ aiCalls[1].promise = "rejected" /\ aiCalls[1].value = None
  /\ aiCalls[2].reply # None /\ aiCalls[2].reply[1].kind = "network_error"
  /\ aiCalls[2].promise = "rejected"

\* C25: whenever the ErrorBoundary shows its fallback, the reportError call
\* that componentDidCatch made for the error it shows has issued a POST.
C25_FallbackMeansReported ==
  render(boundary) = "fallback"
    => /\ LastBoundaryEvent \in RenderFaults
       /\ Cardinality(PostsOf(events[LastBoundaryEvent].report)) >= 1

\* C26: when every issued request completes or fails, every reportError
\* call resolves and every AI call resolves or rejects; and a call is
\* pending only while its own request is.
C26_EveryCallSettles ==
  /\ \A i \in LiveCallIds :
       /\ (i \in DOMAIN calls) ~> (i \in DOMAIN calls /\ calls[i].promise = "resolved")
       /\ (i \in DOMAIN aiCalls)
            ~> (i \in DOMAIN aiCalls /\ aiCalls[i].promise \in {"resolved", "rejected"})
  /\ [](\A i \in CallIds : calls[i].promise = "pending" <=> calls[i].net = "pending")
  /\ [](\A i \in AICallIds :
          aiCalls[i].promise = "pending" <=> (aiCalls[i].request # 0 /\ aiCalls[i].reply = None))

C26_Witness ==
  /\ Len(calls) = 1 /\ Len(aiCalls) = 1
  /\ calls[1].net = "network_error" /\ calls[1].promise = "resolved"
  /\ aiCalls[1].reply # None /\ aiCalls[1].reply[1].kind = "network_error"
  /\ aiCalls[1].promise = "rejected"

\* the parts of a record that the key is made of, after the substitutions
KeyParts(error) ==
  <<error.message,
    IF TruthyStr(error.filename) THEN error.filename[1] ELSE UnknownFile,
    IF TruthyNum(error.lineNumber) THEN error.lineNumber[1] ELSE 0>>

\* C28: two reports that differ in message, in filename ('unknown' for a
\* missing one) or in lineNumber (0 for a missing one) have different dedup
\* keys, so a report is dropped only when a report sent before it has the
\* same message, filename and lineNumber.
C28_KeyDistinguishes ==
  /\ \A i, j \in CallIds :
       (calls[i].key # None /\ calls[j].key # None
          /\ KeyParts(calls[i].error) # KeyParts(calls[j].error))
         => calls[i].key # calls[j].key
  /\ \A j \in CallIds :
       calls[j].outcome = "dropped"
         => \E i \in PostedBefore(j) : KeyParts(calls[i].error) = KeyParts(calls[j].error)

\* the text ends with the truncation marker
EndsWithMarker(text) ==
  /\ Len(text) >= Len(TruncationMarker)
  /\ SubSeq(text, Len(text) - Len(TruncationMarker) + 1, Len(text)) = TruncationMarker

\* the text is MAX_STACK_LENGTH characters followed by one marker
TruncatedOnce(text) ==
  /\ Len(text) = MAX_STACK_LENGTH + Len(TruncationMarker)
  /\ EndsWithMarker(text)

\* C29: a record that reportError has been through, passed to reportError
\* again, keeps its stack and componentStack as they were; a field that was
\* truncated is still its first 5000 characters followed by one marker.
C29_TruncationIdempotent ==
  \A j \in CallIds :
    (j > 1 /\ calls[j].outcome # "skipped" /\ calls[j - 1].outcome = "posted")
      => /\ calls[j].arg = calls[j - 1].error
         /\ calls[j].error.stack = calls[j].arg.stack
         /\ calls[j].error.componentStack = calls[j].arg.componentStack
         /\ Len(calls[j - 1].arg.stack[1]) > MAX_STACK_LENGTH
              => TruncatedOnce(calls[j].error.stack[1])
         /\ (calls[j - 1].arg.componentStack # None
               /\ Len(calls[j - 1].arg.componentStack[1]) > MAX_STACK_LENGTH)
              => TruncatedOnce(calls[j].error.componentStack[1])

C29_Witness ==
  /\ Len(calls) = 2
  /\ calls[1].outcome = "posted" /\ calls[2].outcome = "posted"
  /\ Len(calls[1].arg.stack[1]) > MAX_STACK_LENGTH
  /\ calls[1].arg.componentStack # None
  /\ Len(calls[1].arg.componentStack[1]) > MAX_STACK_LENGTH
  /\ calls[2].arg.stack # calls[1].arg.stack
  /\ calls[2].error.stack = calls[2].arg.stack
  /\ Cardinality(PostsOf(2)) = 1

====
